---- MODULE Spec2Model ----
(***************************************************************************)
(* Model of the paper-search retrieval core:                               *)
(*   build_paper_index.py  (build_index, process_pdf, tokenize)            *)
(*   search_papers.py      (keyword_search, semantic_search, hybrid_search)*)
(*                                                                         *)
(* Text is a sequence of characters.  A Latin character is a one-letter    *)
(* string; a CJK character is written as its pinyin syllable ("jing",      *)
(* "liu" for the two characters of the word for runoff), because the       *)
(* parser only accepts ASCII string literals.                              *)
(***************************************************************************)
EXTENDS Integers, Sequences, FiniteSets, TLC

VARIABLES
    fsLocal,      \* local PDF directory: path index -> "absent" or a content id
    fsZotero,     \* Zotero storage directory: path index -> "absent" or a content id
    storeExists,  \* OUTPUT_JSON.exists()
    store,        \* index["papers"] as persisted in OUTPUT_JSON
    lastBuild,    \* the build_index call that has just returned: "none", "full", "incr"
    survey,       \* all_pdfs_info of that build, before the incremental filter
    zoteroSeen,   \* zotero_pdfs of that build (names, before the local-first filter)
    prevStore,    \* index["papers"] as read by that build (empty when not read)
    collected,    \* `papers` of that build right before the final dedup loop
    hashSeed,     \* the string hash seed of the searching process
    encoder,      \* the sentence encoder in use
    embExists,    \* EMBEDDINGS_PATH.exists()
    emb,          \* the embedding snapshot: its file names and their vectors
    lastSearch,   \* the search call that has just returned, with what it computed
    writer,       \* the snapshot file a build has open for writing, if any
    reader,       \* what the last query-time load of a snapshot file read
    applied       \* a function of the tokenizer applied on its own: argument, value

buildVars == <<fsLocal, fsZotero, storeExists, store, lastBuild, survey,
               zoteroSeen, prevStore, collected>>
searchVars == <<hashSeed, encoder, embExists, emb, lastSearch>>
sideVars == <<writer, reader, applied>>
vars == <<buildVars, searchVars, sideVars>>

----------------------------------------------------------------------------
(* Characters and strings *)

\* an ASCII string as a sequence of one-letter strings
Chars(s) == [i \in 1..Len(s) |-> SubSeq(s, i, i)]

\* A function expression is evaluated anew wherever it is applied.  Stored(f)
\* is the sequence f, and StoredMap(f) the function f, evaluated once.
Stored(f) == f \o <<>>
StoredMap(f) == f @@ <<>>

\* no snapshot file is open for writing, none has been loaded, and no
\* function has been applied on its own
NoWriter == [file |-> "none", data |-> <<>>, flushed |-> 0]
NoRead == [file |-> "none", whole |-> TRUE, data |-> <<>>]
NoCall == [fn |-> "none", arg |-> <<>>, value |-> {}]
InitSide == writer = NoWriter /\ reader = NoRead /\ applied = NoCall

Digits == {"0", "1", "2", "3", "4", "5", "6", "7", "8", "9"}
LowerLetters == {"a", "b", "c", "d", "e", "f", "g", "h", "i", "j", "k", "l", "m",
                 "n", "o", "p", "q", "r", "s", "t", "u", "v", "w", "x", "y", "z"}
UpperLetters == {"A", "B", "C", "D", "E", "F", "G", "H", "I", "J", "K", "L", "M",
                 "N", "O", "P", "Q", "R", "S", "T", "U", "V", "W", "X", "Y", "Z"}
Letters == LowerLetters \cup UpperLetters
\* the characters of [一-鿿] that occur in the model's texts
CJK == {"jing", "liu", "shui", "wen", "mo", "xing", "wu", "hou", "lun", "wen2",
        "bu", "chong", "cai", "liao", "fa", "ming", "zhuan", "li", "zhu",
        "dou", "di", "ti", "qu", "quan", "de", "bei", "jing2",
        "wei", "fen", "lei", "tan", "xiao", "ying", "xun", "huan", "sheng", "tai",
        "dui", "ying3", "xiang"}

\* s[i..] starts with p
StartsWithAt(s, i, p) ==
    /\ i + Len(p) - 1 <= Len(s)
    /\ \A j \in 1..Len(p) : s[i + j - 1] = p[j]

StartsWith(s, p) == StartsWithAt(s, 1, p)

\* Python's `p in s` for strings
Contains(s, p) == \E i \in 1..(Len(s) - Len(p) + 1) : StartsWithAt(s, i, p)

\* s with every occurrence of character c removed (str.replace(c, ''))
RemoveChar(s, c) == SelectSeq(s, LAMBDA x : x # c)

\* the length of the longest prefix of s[i..] whose characters are all in set
RunLen(s, i, set) ==
    LET Upto(stops) ==
            IF stops = {} THEN Len(s) + 1 - i
            ELSE (CHOOSE j \in stops : \A h \in stops : j <= h) - i
    IN IF i > Len(s) THEN 0 ELSE Upto({j \in i..Len(s) : s[j] \notin set})

----------------------------------------------------------------------------
(* build_paper_index.py: file names *)

LunWen == <<"lun", "wen2">>                       \* the two-character prefix of the regex
BuChongCaiLiao == <<"bu", "chong", "cai", "liao">>  \* a SKIP_FILENAME_PATTERNS entry

\* [\.\-\s]
PrefixSeparators == {".", "-", " "}

\* re.sub(r'^(?:lunwen)?\d+[\.\-\s]+', '', name).replace(' ', '')
normalize_filename(name) ==
    LET start == IF StartsWith(name, LunWen) THEN Len(LunWen) + 1 ELSE 1
        nd == RunLen(name, start, Digits)
        ns == RunLen(name, start + nd, PrefixSeparators)
        stripped == IF nd >= 1 /\ ns >= 1
                    THEN SubSeq(name, start + nd + ns, Len(name))
                    ELSE name
    IN RemoveChar(stripped, " ")

\* should_skip_pdf: the patterns of SKIP_FILENAME_PATTERNS that the model's
\* file names can match
should_skip_pdf(filename) == Contains(filename, BuChongCaiLiao)

----------------------------------------------------------------------------
(* Tokenizer (build_paper_index.py tokenize, search_papers.py tokenize) *)

UpperSeq == Chars("ABCDEFGHIJKLMNOPQRSTUVWXYZ")
LowerSeq == Chars("abcdefghijklmnopqrstuvwxyz")

\* str.lower() on one character
LowerChar(c) ==
    IF c \in UpperLetters THEN LowerSeq[CHOOSE k \in 1..26 : UpperSeq[k] = c] ELSE c

\* str.lower()
Lower(w) == [j \in 1..Len(w) |-> LowerChar(w[j])]

\* [a-zA-Z0-9_-]
WordChars == Letters \cup Digits \cup {"_", "-"}

\* re.findall(r'[a-zA-Z][a-zA-Z0-9_-]{1,}', text), scanning from position i:
\* a letter followed by at least one word character starts a maximal match
RECURSIVE EnWordsFrom(_, _)
EnWordsFrom(s, i) ==
    LET Word(j, n) == <<SubSeq(s, j, j + n)>> \o EnWordsFrom(s, j + n + 1)
        WordAt(j) == Word(j, RunLen(s, j + 1, WordChars))
        Next(starts) ==
            IF starts = {} THEN <<>>
            ELSE WordAt(CHOOSE j \in starts : \A h \in starts : j <= h)
    IN Next({j \in i..(Len(s) - 1) : s[j] \in Letters /\ s[j + 1] \in WordChars})

EnWords(s) == EnWordsFrom(s, 1)

\* re.findall(r'[CJK]+', text): the maximal runs of CJK characters
RECURSIVE ZhRunsFrom(_, _)
ZhRunsFrom(s, i) ==
    LET Run(j, n) == <<SubSeq(s, j, j + n - 1)>> \o ZhRunsFrom(s, j + n)
        RunAt(j) == Run(j, RunLen(s, j, CJK))
        Next(starts) ==
            IF starts = {} THEN <<>>
            ELSE RunAt(CHOOSE j \in starts : \A h \in starts : j <= h)
    IN Next({j \in i..Len(s) : s[j] \in CJK})

ZhRuns(s) == ZhRunsFrom(s, 1)

RECURSIVE Concat(_)
Concat(ss) == IF ss = <<>> THEN <<>> ELSE Head(ss) \o Concat(Tail(ss))

JingLiu == <<"jing", "liu">>                   \* runoff
ShuiWen == <<"shui", "wen">>                   \* hydrology
MoXing == <<"mo", "xing">>                     \* model
ShuiWenMoXing == ShuiWen \o MoXing             \* hydrological model
WuHou == <<"wu", "hou">>                       \* phenology
BeiJing == <<"bei", "jing2">>                  \* a place name, a stop word

\* the words of jieba's dictionary (DOMAIN_WORDS and its stock dictionary)
\* that can occur in the model's texts
JiebaDict == {JingLiu, ShuiWen, MoXing, ShuiWenMoXing, WuHou, BeiJing, LunWen,
              <<"zhuan", "zhu">>}

\* STOPWORDS_ZH, restricted to the model's characters
STOPWORDS_ZH == {<<"de">>, BeiJing, LunWen}

\* the length of the longest dictionary word that starts at s[i], or 1
JiebaWordLen(s, i) ==
    LET fits == {n \in 1..(Len(s) - i + 1) : SubSeq(s, i, i + n - 1) \in JiebaDict}
    IN IF fits = {} THEN 1 ELSE CHOOSE n \in fits : \A m \in fits : m <= n

\* jieba.cut(zh): dictionary segmentation, longest word first
RECURSIVE JiebaCutFrom(_, _)
JiebaCutFrom(s, i) ==
    IF i > Len(s) THEN <<>>
    ELSE LET n == JiebaWordLen(s, i)
         IN <<SubSeq(s, i, i + n - 1)>> \o JiebaCutFrom(s, i + n)

jieba_cut(s) == JiebaCutFrom(s, 1)

\* jieba.cut_for_search(zh): every word of jieba.cut, and the dictionary
\* words of two or three characters inside a longer word
jieba_cut_for_search(s) ==
    LET inner(w) == {g \in JiebaDict : Len(g) \in {2, 3} /\ Len(g) < Len(w) /\ Contains(w, g)}
        Cut(words) == UNION {{words[k]} \cup inner(words[k]) : k \in 1..Len(words)}
    IN Cut(jieba_cut(s))

\* a tokenizer without the length tests: one letter is a word, and so is one
\* Chinese character
tokenize_any_length(text) ==
    LET en(en_words) == {Lower(en_words[k]) : k \in 1..Len(en_words)}
        letters == {<<Lower(text)[i]>> : i \in {j \in 1..Len(text) : text[j] \in Letters}}
        zh(zh_text) ==
            IF zh_text = <<>> THEN {}
            ELSE {w \in jieba_cut_for_search(zh_text) : w \notin STOPWORDS_ZH}
    IN en(EnWords(text)) \cup letters \cup zh(Concat(ZhRuns(text)))

\* tokenize(text): the set of search terms of a text
tokenize(text) ==
    LET en(en_words) ==
            {Lower(en_words[k]) : k \in {j \in 1..Len(en_words) : Len(en_words[j]) >= 2}}
        zh(zh_text) ==
            IF zh_text = <<>> THEN {}
            ELSE {w \in jieba_cut_for_search(zh_text) : Len(w) >= 2 /\ w \notin STOPWORDS_ZH}
    IN en(EnWords(text)) \cup zh(Concat(ZhRuns(text)))

----------------------------------------------------------------------------
(* The surveyed directories and what text extraction yields for each PDF *)

\* "[doudi-tiqu]", the marker extract_fallback_abstract puts before its result
MarkFallback == <<"[", "dou", "di", "ti", "qu", "]">>
\* "[doudi-buquan]", the marker of the abstract fill-in of process_pdf
MarkFilled == <<"[", "dou", "di", "bu", "quan", "]">>
ZhuanZhu == <<"zhuan", "zhu">>                    \* "monograph"
FaMingZhuanLi == <<"fa", "ming", "zhuan", "li">>  \* "invention patent"

\* What the extraction steps of process_pdf (fitz, the abstract, keyword and
\* title extractors) yield for a PDF: kind "bad" makes fitz raise, kind "scan"
\* has no text layer, kind "ok" yields the fields.
Contents ==
    [ en_runoff |->
        [kind |-> "ok", language |-> "en", abstract |-> Chars("runoff model"),
         keywords |-> Chars("runoff hydrology"), title |-> Chars("Runoff"),
         text |-> Chars("runoff")],
      zh_runoff |->
        [kind |-> "ok", language |-> "zh", abstract |-> JingLiu \o MoXing,
         keywords |-> JingLiu \o Chars(" ") \o ShuiWen, title |-> JingLiu,
         text |-> JingLiu],
      en_other |->
        [kind |-> "ok", language |-> "en", abstract |-> Chars("carbon cycle"),
         keywords |-> Chars("carbon"), title |-> Chars("Carbon"),
         text |-> Chars("carbon")],
      en_fallback |->
        [kind |-> "ok", language |-> "en",
         abstract |-> MarkFallback \o Chars(" SWAT runoff"),
         keywords |-> Chars("SWAT"), title |-> Chars("SWAT"),
         text |-> Chars("SWAT runoff")],
      en_filled |->
        [kind |-> "ok", language |-> "en", abstract |-> <<>>,
         keywords |-> Chars("hydrology"), title |-> <<>>,
         text |-> Chars("hydrology runoff")],
      scan |->
        [kind |-> "scan", language |-> "unknown", abstract |-> <<>>,
         keywords |-> <<>>, title |-> <<>>, text |-> <<>>],
      bad |->
        [kind |-> "bad", language |-> "unknown", abstract |-> <<>>,
         keywords |-> <<>>, title |-> <<>>, text |-> <<>>] ]

\* The PDFs that can exist under BASE_DIR, in the order sorted(rglob("*.pdf"))
\* lists them (ascending path); content is what the file holds when intact.
LocalPaths ==
    << [folder |-> Chars("A"), name |-> Chars("03-foo.pdf"), content |-> "en_other"],
       [folder |-> Chars("A"), name |-> Chars("bar.pdf"), content |-> "en_other"],
       [folder |-> Chars("B"), name |-> Chars("foo.pdf"), content |-> "en_other"],
       [folder |-> Chars("C"), name |-> Chars("bar") \o BuChongCaiLiao \o Chars(".pdf"),
        content |-> "en_other"],
       [folder |-> Chars("E"), name |-> Chars("carbon.pdf"), content |-> "en_other"],
       [folder |-> Chars("E"), name |-> Chars("filled.pdf"), content |-> "en_filled"],
       [folder |-> Chars("H/S"), name |-> JingLiu \o Chars(".pdf"), content |-> "zh_runoff"],
       [folder |-> Chars("H"), name |-> Chars("runoff damaged 2020.pdf"), content |-> "bad"],
       [folder |-> Chars("H"), name |-> Chars("runoff scan 20200101.pdf"), content |-> "scan"],
       [folder |-> Chars("H"), name |-> Chars("runoff-en.pdf"), content |-> "en_runoff"],
       [folder |-> Chars("H"), name |-> Chars("swat.pdf"), content |-> "en_fallback"],
       [folder |-> Chars("H"), name |-> ZhuanZhu \o Chars("-runoff.pdf"), content |-> "en_runoff"] >>

\* The PDFs that can exist under ZOTERO_STORAGE, in ascending path order
\* (each attachment lives in its own directory)
ZoteroPaths ==
    << [name |-> Chars("foo.pdf"), content |-> "en_other"],
       [name |-> LunWen \o Chars("53-bar.pdf"), content |-> "en_other"],
       [name |-> Chars("7. foo") \o BuChongCaiLiao \o Chars(".pdf"), content |-> "en_other"],
       [name |-> Chars("2 runoff -en.pdf"), content |-> "en_runoff"] >>

\* load_zotero_metadata: the metadata rows of the Zotero database, by file name
ZoteroMetaNames == {Chars("foo.pdf"), Chars("2 runoff -en.pdf")}
zotero_meta_map(name) ==
    IF name = Chars("foo.pdf")
    THEN [title |-> Chars("Foo"), collections |-> <<Chars("H")>>]
    ELSE [title |-> Chars("Runoff streamflow"), collections |-> <<>>]

NoMeta == [title |-> <<>>, collections |-> <<>>]

----------------------------------------------------------------------------
(* build_paper_index.py: process_pdf *)

\* sep.join(parts)
RECURSIVE Join(_, _)
Join(sep, parts) ==
    IF parts = <<>> THEN <<>>
    ELSE IF Len(parts) = 1 THEN parts[1]
    ELSE parts[1] \o sep \o Join(sep, Tail(parts))

\* s[:n]
Prefix(s, n) == SubSeq(s, 1, IF Len(s) < n THEN Len(s) ELSE n)

\* str.strip() for the blank character
Strip(s) ==
    LET Between(inked) ==
            IF inked = {} THEN <<>>
            ELSE SubSeq(s, CHOOSE j \in inked : \A h \in inked : j <= h,
                        CHOOSE j \in inked : \A h \in inked : h <= j)
    IN Between({j \in 1..Len(s) : s[j] # " "})

WeiFenLei == Chars("Zotero/") \o <<"wei", "fen", "lei">>   \* "Zotero/uncategorised"

\* is_title_low_quality, for the titles the model's contents hold
is_title_low_quality(title) == Strip(title) = <<>>

TokenFields == <<"filename", "keywords", "abstract", "title_extracted", "folder">>

\* process_pdf(pdf_path, source, zotero_meta): the record of one PDF.
\* path is an entry of LocalPaths or ZoteroPaths, hasMeta says whether
\* zotero_meta was given, c is the content id the file holds.
process_pdf(path, source, hasMeta, meta, c) ==
    LET content == Contents[c]
        folder == IF source = "local" THEN path.folder
                  ELSE IF hasMeta
                       THEN (IF meta.collections # <<>>
                             THEN Join(Chars(" | "), meta.collections)
                             ELSE WeiFenLei)
                       ELSE Chars("unknown")
        result == [ filename |-> path.name, folder |-> folder, source |-> source,
                    language |-> "unknown", title_extracted |-> <<>>,
                    abstract |-> <<>>, keywords |-> <<>>, first_pages_text |-> <<>>,
                    is_scannable |-> FALSE, extraction_method |-> "standard",
                    error |-> FALSE,
                    zotero_title |-> IF hasMeta THEN meta.title ELSE <<>>,
                    zotero_collections |-> IF hasMeta THEN meta.collections ELSE <<>>,
                    tokens |-> [f \in {} |-> {}] ]
        \* lines 691-725: the extracted abstract, else the fill-in
        snippet == Strip(Prefix(content.text, 600))
        abstract == IF content.abstract # <<>> THEN content.abstract
                    ELSE IF snippet # <<>> THEN MarkFilled \o Chars(" ") \o snippet
                    ELSE IF result.zotero_title # <<>>
                         THEN MarkFilled \o Chars(" ") \o result.zotero_title
                    ELSE MarkFilled \o Chars(" ") \o result.filename
        method == IF StartsWith(content.abstract, MarkFallback) \/ content.abstract = <<>>
                  THEN "fallback" ELSE "standard"
        title == IF result.zotero_title # <<>> /\ is_title_low_quality(content.title)
                 THEN Prefix(result.zotero_title, 200) ELSE content.title
        filled == [result EXCEPT !.language = content.language,
                                 !.abstract = abstract,
                                 !.keywords = content.keywords,
                                 !.title_extracted = title,
                                 !.first_pages_text = Prefix(content.text, 3000),
                                 !.extraction_method = method]
        \* lines 747-762: the precomputed token sets of the non-empty fields
        present == {f \in {TokenFields[k] : k \in 1..Len(TokenFields)} : filled[f] # <<>>}
        zotero_text_parts ==
            (IF filled.zotero_title # <<>> THEN <<filled.zotero_title>> ELSE <<>>)
            \o (IF filled.zotero_collections # <<>>
                THEN <<Join(Chars(" "), filled.zotero_collections)>> ELSE <<>>)
        tokens == [f \in present \cup (IF zotero_text_parts # <<>> THEN {"zotero_meta"} ELSE {})
                    |-> IF f = "zotero_meta"
                        THEN tokenize(Join(Chars(" "), zotero_text_parts))
                        ELSE tokenize(filled[f])]
    IN CASE content.kind = "bad" -> [result EXCEPT !.error = TRUE]
         [] content.kind = "scan" -> [result EXCEPT !.is_scannable = TRUE]
         [] OTHER -> [filled EXCEPT !.tokens = tokens]

----------------------------------------------------------------------------
(* build_paper_index.py: build_index *)

\* the names of a list of records or of all_pdfs_info entries
NamesOf(list) == {list[k].filename : k \in 1..Len(list)}

\* lines 873-887: the final dedup loop over `papers`, from index i on
RECURSIVE DedupLoop(_, _, _, _, _)
DedupLoop(papers, i, seen_filenames, seen_normalized, deduped) ==
    IF i > Len(papers) THEN deduped
    ELSE LET p == papers[i]
             norm == normalize_filename(p.filename)
         IN IF p.filename \in seen_filenames
            THEN DedupLoop(papers, i + 1, seen_filenames, seen_normalized, deduped)
            ELSE IF norm \in seen_normalized
            THEN DedupLoop(papers, i + 1, seen_filenames, seen_normalized, deduped)
            ELSE DedupLoop(papers, i + 1, seen_filenames \cup {p.filename},
                           seen_normalized \cup {norm}, Append(deduped, p))

\* the loop without its normalized-name tier
RECURSIVE DedupExactLoop(_, _, _, _)
DedupExactLoop(papers, i, seen_filenames, deduped) ==
    IF i > Len(papers) THEN deduped
    ELSE IF papers[i].filename \in seen_filenames
    THEN DedupExactLoop(papers, i + 1, seen_filenames, deduped)
    ELSE DedupExactLoop(papers, i + 1, seen_filenames \cup {papers[i].filename},
                        Append(deduped, papers[i]))

DedupExactOnly(papers) == DedupExactLoop(papers, 1, {}, <<>>)

\* the loop with its second test made against the names kept, not against
\* their normalized forms
RECURSIVE DedupRawLoop(_, _, _, _)
DedupRawLoop(papers, i, seen_filenames, deduped) ==
    IF i > Len(papers) THEN deduped
    ELSE IF papers[i].filename \in seen_filenames
            \/ normalize_filename(papers[i].filename) \in seen_filenames
    THEN DedupRawLoop(papers, i + 1, seen_filenames, deduped)
    ELSE DedupRawLoop(papers, i + 1, seen_filenames \cup {papers[i].filename},
                      Append(deduped, papers[i]))

DedupAgainstKeptNames(papers) == DedupRawLoop(papers, 1, {}, <<>>)

Dedup(papers) == DedupLoop(papers, 1, {}, {}, <<>>)

\* lines 778-779, 788-789: the PDFs of a directory that are not skipped, in
\* sorted order, as all_pdfs_info entries
RECURSIVE ScanFrom(_, _, _, _)
ScanFrom(paths, fs, source, i) ==
    IF i > Len(paths) THEN <<>>
    ELSE (IF fs[i] # "absent" /\ ~should_skip_pdf(paths[i].name)
          THEN << [index |-> i, filename |-> paths[i].name, source |-> source,
                   content |-> fs[i], hasMeta |-> FALSE] >>
          ELSE <<>>)
         \o ScanFrom(paths, fs, source, i + 1)

\* lines 800-812: local first, then the Zotero PDFs whose name no local PDF
\* has; Zotero metadata is attached by file name
all_pdfs_info(local_pdfs, zotero_pdfs, metaLoaded) ==
    LET local_filenames == NamesOf(local_pdfs)
        IsUnique(e) == e.filename \notin local_filenames
        zotero_unique == SelectSeq(zotero_pdfs, IsUnique)
        both == local_pdfs \o zotero_unique
    IN [k \in 1..Len(both) |->
            IF metaLoaded /\ both[k].filename \in ZoteroMetaNames
            THEN [both[k] EXCEPT !.hasMeta = TRUE]
            ELSE both[k]]

\* process_pdf of every PDF that can exist, computed once: by source, path
\* index, content id and whether Zotero metadata is attached
ContentIds == DOMAIN Contents
Processed ==
    [source \in {"local", "zotero"} |->
        LET paths == IF source = "local" THEN LocalPaths ELSE ZoteroPaths
        IN [i \in 1..Len(paths) |-> [c \in ContentIds |-> [hasMeta \in BOOLEAN |->
               process_pdf(paths[i], source, hasMeta,
                           IF hasMeta THEN zotero_meta_map(paths[i].name) ELSE NoMeta,
                           c)]]]]

\* lines 846-854: process_pdf on every entry, in order
ProcessAll(infos) ==
    [k \in 1..Len(infos) |->
        Processed[infos[k].source][infos[k].index][infos[k].content][infos[k].hasMeta]]

\* the existing index is read but nothing of it is kept
existing_papers_dropped(incremental, surveyed) == <<>>

\* the existing index is kept whole, deleted files included
existing_papers_unevicted(incremental, surveyed) ==
    IF incremental /\ storeExists THEN store ELSE <<>>

\* lines 817-841: the records kept from the existing index
existing_papers(incremental, surveyed) ==
    IF incremental /\ storeExists
    THEN LET existing_filenames == NamesOf(store)
             current_filenames == NamesOf(surveyed)
             removed == existing_filenames \ current_filenames
             Kept(p) == p.filename \notin removed
         IN SelectSeq(store, Kept)
    ELSE <<>>

\* line 833: the entries still to process
new_pdfs_info(incremental, surveyed) ==
    IF incremental /\ storeExists
    THEN LET existing_filenames == NamesOf(store)
             IsNew(e) == e.filename \notin existing_filenames
         IN SelectSeq(surveyed, IsNew)
    ELSE surveyed

\* build_index(incremental, include_zotero)
build_index(incremental, include_zotero) ==
    LET local_pdfs == ScanFrom(LocalPaths, fsLocal, "local", 1)
        zotero_pdfs == IF include_zotero
                       THEN ScanFrom(ZoteroPaths, fsZotero, "zotero", 1) ELSE <<>>
        surveyed == all_pdfs_info(local_pdfs, zotero_pdfs, include_zotero)
        papers == existing_papers(incremental, surveyed)
                    \o ProcessAll(new_pdfs_info(incremental, surveyed))
    IN /\ store' = Dedup(papers)
       /\ storeExists' = TRUE
       /\ lastBuild' = IF incremental /\ storeExists THEN "incr" ELSE "full"
       /\ survey' = surveyed
       /\ zoteroSeen' = NamesOf(zotero_pdfs)
       /\ prevStore' = IF incremental /\ storeExists THEN store ELSE <<>>
       /\ collected' = papers
       /\ UNCHANGED <<fsLocal, fsZotero>>
       /\ UNCHANGED <<searchVars, sideVars>>

----------------------------------------------------------------------------
(* search_papers.py: the vocabularies, restricted to the model's words *)

Tan == <<"tan">>                               \* carbon
XiaoYing == <<"xiao", "ying">>                 \* effect
XunHuan == <<"xun", "huan">>                   \* cycle
ShengTai == <<"sheng", "tai">>                 \* ecology
SwatTag == Chars("SWAT") \o ShuiWenMoXing      \* the tag of "swat"

\* the elements of a sequence
Range(seq) == {seq[k] : k \in 1..Len(seq)}

\* TOPIC_EXPANSIONS in declaration order: the topics a word of the model can
\* select, each with those of its synonyms that are a topic label or can
\* equal a token of the model's texts
TOPIC_EXPANSIONS ==
    << [topic |-> ShuiWen,
        synonyms |-> <<Chars("hydrological"), Chars("hydrology"), ShuiWen, JingLiu,
                       Chars("runoff"), Chars("streamflow"), Chars("discharge"),
                       ShuiWen \o XiaoYing, ShuiWenMoXing>>],
       [topic |-> Chars("SWAT"),
        synonyms |-> <<Chars("SWAT"), Chars("swat"), Chars("SWAT+")>>],
       [topic |-> ShuiWen \o XiaoYing,
        synonyms |-> <<ShuiWen \o XiaoYing, Chars("runoff"), JingLiu,
                       Chars("streamflow")>>],
       [topic |-> Tan \o XunHuan,
        synonyms |-> <<Chars("carbon"), Tan, Chars("carbon cycle"), Tan \o XunHuan>>],
       [topic |-> MoXing,
        synonyms |-> <<Chars("model"), MoXing, Chars("simulation")>>],
       [topic |-> ShengTai \o ShuiWen,
        synonyms |-> <<Chars("ecohydrology"), ShengTai \o ShuiWen,
                       ShuiWen \o XiaoYing>>] >>

\* _EN_TO_CN_TAGS: the entries whose English key a text of the model contains
EN_TO_CN_TAGS ==
    << [en |-> Chars("hydrological"), tag |-> ShuiWen],
       [en |-> Chars("hydrology"), tag |-> ShuiWen],
       [en |-> Chars("runoff"), tag |-> JingLiu],
       [en |-> Chars("streamflow"), tag |-> JingLiu],
       [en |-> Chars("discharge"), tag |-> JingLiu],
       [en |-> Chars("carbon"), tag |-> Tan],
       [en |-> Chars("model"), tag |-> MoXing],
       [en |-> Chars("swat"), tag |-> SwatTag] >>

\* the folder keywords of _generate_cn_topics over the model's characters
FolderKeywords == {ShuiWen, JingLiu, Tan, MoXing}

\* Python iterates a set of strings in an order fixed by the hash seed of
\* the process and by nothing else.  The model draws that order from
\* NumHashSeeds orders: HashOrders[seed] lists the tags, FilenameOrder
\* below the file names.
NumHashSeeds == 2
HashSeeds == 1..NumHashSeeds
HashOrders ==
    << <<JingLiu, ShuiWen, MoXing, Tan, SwatTag>>,
       <<MoXing, SwatTag, Tan, ShuiWen, JingLiu>> >>

\* the members of a set of tags in the iteration order of the seed
RECURSIVE InOrder(_, _)
InOrder(order, set) ==
    IF order = <<>> THEN <<>>
    ELSE (IF Head(order) \in set THEN <<Head(order)>> ELSE <<>>)
         \o InOrder(Tail(order), set)

\* _generate_cn_topics(paper): the Chinese topic tags of an English paper,
\* joined in set iteration order.  The text is under 100 characters, and the
\* record has no 'first_pages' key to extend it from; no compound rule
\* applies to the tags of the model.
generate_cn_topics(paper, seed) ==
    LET parts == SelectSeq(<<paper.keywords, paper.abstract, paper.title_extracted>>,
                           LAMBDA t : t # <<>>)
        text == Lower(Join(Chars(" "), parts))
        cn == {EN_TO_CN_TAGS[k].tag :
                  k \in {j \in 1..Len(EN_TO_CN_TAGS) : Contains(text, EN_TO_CN_TAGS[j].en)}}
              \cup {kw \in FolderKeywords : Contains(paper.folder, kw)}
    IN Join(Chars(" "), InOrder(HashOrders[seed], cn))

\* load_index: every record of the store, English ones with their cn_topics
load_index(papers, seed) ==
    Stored([k \in 1..Len(papers) |->
        [cn_topics |-> IF papers[k].language = "en"
                       THEN generate_cn_topics(papers[k], seed) ELSE <<>>]
        @@ papers[k]])

----------------------------------------------------------------------------
(* search_papers.py: parse_query, expand_query *)

\* parse_query(query): the English words, then the jieba words of every CJK
\* run that have two characters or more and are no stop word
parse_query(query) ==
    LET zh_parts == ZhRuns(query)
        Keep(w) == Len(w) >= 2 /\ w \notin STOPWORDS_ZH
    IN EnWords(query)
       \o Concat([k \in 1..Len(zh_parts) |-> SelectSeq(jieba_cut(zh_parts[k]), Keep)])

\* expand_query(query_terms): the terms, lower-cased and as written, with the
\* synonyms of every topic a term selects, and the topics in the order the
\* loops first select them
expand_query(query_terms) ==
    LET n == Len(TOPIC_EXPANSIONS)
        synonyms_lower(j) == {Lower(syn) : syn \in Range(TOPIC_EXPANSIONS[j].synonyms)}
        \* line 496: term i selects topic j
        Selects(i, j) ==
            \/ Lower(query_terms[i]) \in synonyms_lower(j)
            \/ Contains(TOPIC_EXPANSIONS[j].topic, query_terms[i])
        \* the passes of the inner loop in order, and those that append a topic
        passes == [k \in 1..(Len(query_terms) * n) |->
                      [i |-> 1 + ((k - 1) \div n), j |-> 1 + ((k - 1) % n)]]
        Appended(pass) ==
            /\ Selects(pass.i, pass.j)
            /\ \A h \in 1..(pass.i - 1) : ~Selects(h, pass.j)
        Topics(appended) ==
            [expanded |->
                {Lower(t) : t \in Range(query_terms)} \cup Range(query_terms)
                \cup UNION {synonyms_lower(appended[k].j) : k \in 1..Len(appended)},
             matched_topics |->
                Stored([k \in 1..Len(appended) |-> TOPIC_EXPANSIONS[appended[k].j].topic])]
    IN Topics(SelectSeq(passes, Appended))

----------------------------------------------------------------------------
(* search_papers.py: score_paper_keyword, keyword_search *)

\* the scored fields in the order of the `fields` dict, each with twice its
\* weight (3.0, 5.0, 4.0, 3.5, 1.0, 2.0, 2.5, 3.0)
fields ==
    << [field |-> "filename", weight2 |-> 6],
       [field |-> "keywords", weight2 |-> 10],
       [field |-> "abstract", weight2 |-> 8],
       [field |-> "title_extracted", weight2 |-> 7],
       [field |-> "first_pages_text", weight2 |-> 2],
       [field |-> "folder", weight2 |-> 4],
       [field |-> "zotero_meta", weight2 |-> 5],
       [field |-> "cn_topics", weight2 |-> 6] >>

\* A lexical score is an integer number of 1/ScoreUnit: field sums are
\* counted in quarters and each of the four multipliers in twentieths, so
\* every product the scorer forms is exact (the code rounds to a double).
ExactMatch4 == 4          \* weight * 2.0 in quarters, per unit of weight2
ExpandedMatch4 == 1       \* weight * 0.5 in quarters, per unit of weight2
NoBonus20 == 20           \* 1.0
AbstractBonus20 == 24     \* 1.2
FallbackBonus20 == 21     \* 1.05
KeywordsBonus20 == 22     \* 1.1
DiversityBonus20 == 26    \* 1.3
CoverAll20 == 40          \* 2.0
CoverMost20 == 30         \* 1.5
CoverHalf20 == 24         \* 1.2
ScoreUnit == 4 * NoBonus20 * NoBonus20 * NoBonus20 * NoBonus20

\* paper.get(field, ""): a record has no zotero_meta text of its own
FieldText(paper, field) ==
    IF field \in DOMAIN paper THEN paper[field] ELSE <<>>

\* a coverage multiplier with one threshold: 2.0 from half of the terms on
coverage20_half(matched_terms, query_tokens) ==
    IF Cardinality(query_tokens) >= 2
       /\ 2 * Cardinality(matched_terms \cap query_tokens) >= Cardinality(query_tokens)
    THEN CoverAll20 ELSE NoBonus20

\* lines 570-578: the multiplier for the share of query_tokens among the
\* matched terms, for two query tokens or more
coverage20(matched_terms, query_tokens) ==
    LET covered == Cardinality(matched_terms \cap query_tokens)
        total == Cardinality(query_tokens)
    IN IF total < 2 THEN NoBonus20
       ELSE IF 10 * covered >= 9 * total THEN CoverAll20
       ELSE IF 10 * covered >= 7 * total THEN CoverMost20
       ELSE IF 10 * covered >= 5 * total THEN CoverHalf20
       ELSE NoBonus20

\* score_paper_keyword(paper, query_tokens, expanded_tokens): the score, the
\* matched fields and the matched terms it returns, and with them the
\* abstract and coverage multipliers that went into the score
score_paper_keyword(paper, query_tokens, expanded_tokens) ==
    LET precomputed == paper.tokens
        \* the fields the loop does not `continue` on
        Scored(f) ==
            \/ f \in DOMAIN precomputed
            \/ /\ f = "first_pages_text" => (paper.abstract = <<>> /\ paper.keywords = <<>>)
               /\ FieldText(paper, f) # <<>>
        text_tokens(f) ==
            IF f \in DOMAIN precomputed THEN precomputed[f]
            ELSE tokenize(FieldText(paper, f))
        \* the exact and the expanded matches in a field of these tokens
        Match(tokens) ==
            [exact |-> query_tokens \cap tokens,
             expanded |-> (expanded_tokens \ query_tokens) \cap tokens]
        \* score, matched_fields and matched_terms from the matches of every
        \* field of `fields`, hit being the fields with an exact match
        Outcome(matches, hit) ==
            LET RECURSIVE Sum(_)
                Sum(k) ==
                    IF k = 0 THEN 0
                    ELSE Sum(k - 1)
                         + Cardinality(matches[k].exact) * fields[k].weight2 * ExactMatch4
                         + Cardinality(matches[k].expanded) * fields[k].weight2
                           * ExpandedMatch4
                matched_terms ==
                    UNION {matches[k].exact \cup matches[k].expanded : k \in 1..Len(fields)}
                abstract20 ==
                    IF paper.abstract = <<>> THEN NoBonus20
                    ELSE IF ~Contains(paper.abstract, MarkFallback) THEN AbstractBonus20
                    ELSE FallbackBonus20
                keywords20 == IF paper.keywords # <<>> THEN KeywordsBonus20 ELSE NoBonus20
                diversity20 == IF Len(hit) >= 3 THEN DiversityBonus20 ELSE NoBonus20
                Scaled(cover20) ==
                    [score |-> Sum(Len(fields)) * abstract20 * keywords20 * diversity20
                               * cover20,
                     matched_fields |-> [i \in 1..Len(hit) |-> fields[hit[i]].field],
                     matched_terms |-> matched_terms,
                     abstract20 |-> abstract20,
                     coverage20 |-> cover20]
            IN Scaled(coverage20(matched_terms, query_tokens))
        WithMatches(matches) ==
            Outcome(matches, SelectSeq([k \in 1..Len(fields) |-> k],
                                       LAMBDA k : matches[k].exact # {}))
    IN WithMatches(Stored([k \in 1..Len(fields) |->
            Match(IF Scored(fields[k].field) THEN text_tokens(fields[k].field) ELSE {})]))

\* sorted(seq, key, reverse=True): Python's sort is stable, so items of equal
\* key keep their order; Gt(a, b) says that the key of a is the greater
SortedDesc(seq, Gt(_, _)) ==
    LET n == Len(seq)
        pos(i) == 1 + Cardinality({j \in 1..n : Gt(seq[j], seq[i])})
                    + Cardinality({j \in 1..(i - 1) :
                                      ~Gt(seq[j], seq[i]) /\ ~Gt(seq[i], seq[j])})
        place == Stored([i \in 1..n |-> pos(i)])
    IN Stored([p \in 1..n |-> seq[CHOOSE i \in 1..n : place[i] = p]])

\* lines 612-623: the query-time dedup of the sorted results, from item i on
RECURSIVE DedupResults(_, _, _, _, _)
DedupResults(results, i, seen, seen_norm, deduped) ==
    IF i > Len(results) THEN deduped
    ELSE LET fn == results[i].paper.filename
             norm == normalize_filename(fn)
         IN IF fn \in seen \/ norm \in seen_norm
            THEN DedupResults(results, i + 1, seen, seen_norm, deduped)
            ELSE DedupResults(results, i + 1, seen \cup {fn}, seen_norm \cup {norm},
                              Append(deduped, results[i]))

DenyList == {FaMingZhuanLi, ZhuanZhu}

\* keyword_search without its folder test (lines 593-594 left out)
KeywordEligibleAnyFolder(paper, folder_filter, exclude_fallback) ==
    /\ ~paper.is_scannable
    /\ \A d \in DenyList : ~Contains(paper.filename, d)
    /\ ~(exclude_fallback /\ StartsWith(paper.abstract, MarkFallback))

\* lines 592-601: the papers keyword_search scores.  folder_filter is <<>>
\* when the caller gives none.
KeywordEligible(paper, folder_filter, exclude_fallback) ==
    /\ ~(folder_filter # <<>> /\ ~Contains(paper.folder, folder_filter))
    /\ ~paper.is_scannable
    /\ \A d \in DenyList : ~Contains(paper.filename, d)
    /\ ~(exclude_fallback /\ StartsWith(paper.abstract, MarkFallback))

\* keyword_search(query, papers, top_n, folder_filter, exclude_fallback):
\* the result list (the matched topics are not modelled further)
keyword_search(query, papers, top_n, folder_filter, exclude_fallback) ==
    LET query_terms == parse_query(query)
        query_tokens == {Lower(t) : t \in Range(query_terms)} \cup Range(query_terms)
        expanded_tokens == expand_query(query_terms).expanded
        eligible == SelectSeq(papers,
                        LAMBDA p : KeywordEligible(p, folder_filter, exclude_fallback))
        scored == [k \in 1..Len(eligible) |->
                      [paper |-> eligible[k]]
                      @@ score_paper_keyword(eligible[k], query_tokens, expanded_tokens)]
        results == SelectSeq(scored, LAMBDA r : r.score > 0)
        sorted == SortedDesc(results, LAMBDA a, b : a.score > b.score)
    IN Prefix(DedupResults(sorted, 1, {}, {}, <<>>), top_n)

\* keyword_search without its test of the score: every eligible paper
keyword_matches_unfiltered(query, papers, folder_filter, exclude_fallback) ==
    LET Scored(query_terms) ==
            LET query_tokens == {Lower(t) : t \in Range(query_terms)} \cup Range(query_terms)
                expanded_tokens == expand_query(query_terms).expanded
                eligible == SelectSeq(papers,
                                LAMBDA p : KeywordEligible(p, folder_filter, exclude_fallback))
            IN Stored([k \in 1..Len(eligible) |->
                          [paper |-> eligible[k]]
                          @@ score_paper_keyword(eligible[k], query_tokens, expanded_tokens)])
    IN Scored(parse_query(query))

\* lines 585-607: `results` of keyword_search before it is sorted, deduplicated
\* and cut
keyword_matches(query, papers, folder_filter, exclude_fallback) ==
    LET Scored(query_terms) ==
            LET query_tokens == {Lower(t) : t \in Range(query_terms)} \cup Range(query_terms)
                expanded_tokens == expand_query(query_terms).expanded
                eligible == SelectSeq(papers,
                                LAMBDA p : KeywordEligible(p, folder_filter, exclude_fallback))
                scored == [k \in 1..Len(eligible) |->
                              [paper |-> eligible[k]]
                              @@ score_paper_keyword(eligible[k], query_tokens,
                                                     expanded_tokens)]
            IN Stored(SelectSeq(scored, LAMBDA r : r.score > 0))
    IN Scored(parse_query(query))

----------------------------------------------------------------------------
(* search_papers.py: query translation *)

YingXiang == <<"ying3", "xiang">>              \* influence
XiangYing == <<"xiang", "ying">>               \* response

\* _QUERY_TEMPLATES in declaration order: the templates over the model's
\* characters
QUERY_TEMPLATES ==
    << [cn |-> WuHou \o <<"dui">> \o ShuiWen \o <<"de">> \o YingXiang,
        en |-> Chars("phenology evapotranspiration streamflow hydrology")],
       [cn |-> WuHou \o <<"dui">> \o JingLiu \o <<"de">> \o YingXiang,
        en |-> Chars("phenology runoff streamflow discharge")] >>

\* CN_TO_EN_QUERY in declaration order: the keys over the model's characters
\* (the later of the two entries of a key written twice is the one in force)
CN_TO_EN_QUERY ==
    << [cn |-> WuHou, en |-> Chars("phenology phenological")],
       [cn |-> JingLiu, en |-> Chars("runoff streamflow discharge")],
       [cn |-> ShuiWen \o XiaoYing,
        en |-> Chars("hydrological hydrology streamflow runoff evapotranspiration")],
       [cn |-> ShuiWen \o XiangYing, en |-> Chars("hydrological response")],
       [cn |-> ShuiWen, en |-> Chars("hydrological hydrology")],
       [cn |-> <<"shui">> \o XunHuan, en |-> Chars("water cycle hydrological")],
       [cn |-> Tan \o XunHuan, en |-> Chars("carbon cycle GPP")],
       [cn |-> ShuiWenMoXing, en |-> Chars("hydrological model SWAT VIC")],
       [cn |-> YingXiang, en |-> Chars("effect impact")],
       [cn |-> XiangYing, en |-> Chars("response")],
       [cn |-> Tan, en |-> Chars("carbon GPP")],
       [cn |-> <<"fen", "lei">>, en |-> Chars("classification")],
       [cn |-> ShengTai \o ShuiWen, en |-> Chars("ecohydrology ecohydrological")] >>

\* s without the characters of a set (re.sub of a character class by '')
RemoveChars(s, set) == SelectSeq(s, LAMBDA x : x \notin set)

\* the characters _translate_query strips: blanks and punctuation
StrippedQuery == {" ", "(", ")"}
\* and those _translate_query_wordlevel strips besides: the particles
StrippedWordLevel == StrippedQuery \cup {"de", "dui"}

\* sorted(table, key=len of the Chinese side, reverse=True)
ByLengthDesc(table) == SortedDesc(table, LAMBDA a, b : Len(a.cn) > Len(b.cn))

\* sorted(CN_TO_EN_QUERY.keys(), key=len, reverse=True), with the entries
sorted_keys == ByLengthDesc(CN_TO_EN_QUERY)

\* the term-by-term loop of both translators over the rest of the text:
\* the parts found so far and the number of characters translated
RECURSIVE TranslateLoop(_, _, _)
TranslateLoop(text, parts, translated_chars) ==
    IF text = <<>> THEN [parts |-> parts, translated_chars |-> translated_chars]
    ELSE LET \* the first n characters are taken as part, `chars` of them
             \* translated
             Taken(part, n, chars) ==
                 TranslateLoop(SubSeq(text, n + 1, Len(text)),
                               IF part \in Range(parts) THEN parts ELSE Append(parts, part),
                               translated_chars + chars)
             TakeKey(key) == Taken(key.en, Len(key.cn), Len(key.cn))
             \* hits: the keys the text starts with; n: the letters it starts with
             Step(hits, n) ==
                 IF hits # {}
                 THEN TakeKey(sorted_keys[CHOOSE k \in hits : \A h \in hits : k <= h])
                 ELSE IF n >= 1 THEN Taken(SubSeq(text, 1, n), n, 0)
                 ELSE TranslateLoop(Tail(text), parts, translated_chars)
         IN Step({k \in 1..Len(sorted_keys) : StartsWith(text, sorted_keys[k].cn)},
                 RunLen(text, 1, Letters))

\* _translate_query(query): the template equal to the query, else the
\* longest template that contains it, else the term-by-term translation
translate_query(query) ==
    LET Translated(q_norm, sorted) ==
            LET exact == {k \in 1..Len(QUERY_TEMPLATES) :
                             q_norm = RemoveChar(QUERY_TEMPLATES[k].cn, " ")}
                within == {k \in 1..Len(sorted) :
                              Contains(RemoveChar(sorted[k].cn, " "), q_norm)}
            IN IF exact # {}
               THEN QUERY_TEMPLATES[CHOOSE k \in exact : \A h \in exact : k <= h].en
               ELSE IF within # {}
               THEN sorted[CHOOSE k \in within : \A h \in within : k <= h].en
               ELSE Join(Chars(" "), TranslateLoop(q_norm, <<>>, 0).parts)
    IN Translated(RemoveChars(query, StrippedQuery), ByLengthDesc(QUERY_TEMPLATES))

\* _translate_query_wordlevel(query): the term-by-term translation, or
\* nothing when under half of the CJK characters were translated
translate_query_wordlevel(query) ==
    LET Translated(q_norm) ==
            LET total_cn_chars == Len(SelectSeq(q_norm, LAMBDA c : c \in CJK))
                Checked(done) ==
                    IF total_cn_chars > 0 /\ 2 * done.translated_chars < total_cn_chars
                    THEN <<>>
                    ELSE Join(Chars(" "), done.parts)
            IN Checked(TranslateLoop(q_norm, <<>>, 0))
    IN Translated(RemoveChars(query, StrippedWordLevel))

\* _is_chinese_query(query)
is_chinese_query(query) == \E k \in 1..Len(query) : query[k] \in CJK

----------------------------------------------------------------------------
(* Exact reciprocal-rank sums.  A sum of terms 1.0 / d is kept as the       *)
(* fraction num / (d1 * ... * dn) with num a natural number of any size,   *)
(* written as its digits in base BigBase, lowest first (the code adds      *)
(* doubles).                                                               *)

BigBase == 10000

\* x * d + carry
RECURSIVE BigTimes(_, _, _)
BigTimes(x, d, carry) ==
    IF x = <<>>
    THEN (IF carry = 0 THEN <<>>
          ELSE <<carry % BigBase>> \o BigTimes(<<>>, d, carry \div BigBase))
    ELSE LET v == Head(x) * d + carry
         IN <<v % BigBase>> \o BigTimes(Tail(x), d, v \div BigBase)

\* x times every number of ds
RECURSIVE BigTimesAll(_, _)
BigTimesAll(x, ds) ==
    IF ds = <<>> THEN x ELSE BigTimesAll(BigTimes(x, Head(ds), 0), Tail(ds))

\* x + y + carry
RECURSIVE BigPlus(_, _, _)
BigPlus(x, y, carry) ==
    IF x = <<>> /\ y = <<>> THEN (IF carry = 0 THEN <<>> ELSE <<carry>>)
    ELSE LET v == (IF x = <<>> THEN 0 ELSE Head(x))
                  + (IF y = <<>> THEN 0 ELSE Head(y)) + carry
         IN <<v % BigBase>>
            \o BigPlus(IF x = <<>> THEN <<>> ELSE Tail(x),
                       IF y = <<>> THEN <<>> ELSE Tail(y), v \div BigBase)

\* x < y
BigLess(x, y) ==
    \/ Len(x) < Len(y)
    \/ /\ Len(x) = Len(y)
       /\ \E i \in 1..Len(x) :
             x[i] < y[i] /\ \A j \in (i + 1)..Len(x) : x[j] = y[j]

\* score = 0.0
RRFZero == [num |-> <<>>, dens |-> <<>>]

\* score += 1.0 / d
RRFAdd(score, d) ==
    [num |-> BigPlus(BigTimes(score.num, d, 0), BigTimesAll(<<1>>, score.dens), 0),
     dens |-> Append(score.dens, d)]

\* a < b: the order of a sort that lacks reverse=True
RRFSmaller(a, b) == BigLess(BigTimesAll(a.num, b.dens), BigTimesAll(b.num, a.dens))

\* a > b
RRFGreater(a, b) == BigLess(BigTimesAll(b.num, a.dens), BigTimesAll(a.num, b.dens))

----------------------------------------------------------------------------
(* build_embeddings.py compose_embedding_text; the sentence encoder *)

\* text.replace(old, '')
RECURSIVE RemoveAll(_, _)
RemoveAll(text, old) ==
    LET CutAt(i) == SubSeq(text, 1, i - 1)
                    \o RemoveAll(SubSeq(text, i + Len(old), Len(text)), old)
        Next(hits) ==
            IF hits = {} THEN text
            ELSE CutAt(CHOOSE i \in hits : \A h \in hits : i <= h)
    IN Next({i \in 1..Len(text) : StartsWithAt(text, i, old)})

\* compose_embedding_text(paper): the text a paper is embedded by (the
\* model's keywords carry no "[auto] " prefix and its records no Zotero tags)
compose_embedding_text(paper) ==
    LET title == IF paper.zotero_title # <<>> THEN paper.zotero_title
                 ELSE IF paper.title_extracted # <<>> THEN paper.title_extracted
                 ELSE paper.filename
        abstract == RemoveAll(paper.abstract, MarkFallback \o Chars(" "))
        parts == (IF title # <<>> THEN <<title>> ELSE <<>>)
                 \o (IF paper.keywords # <<>> THEN <<paper.keywords>> ELSE <<>>)
                 \o (IF paper.abstract # <<>> THEN <<Prefix(abstract, 500)>> ELSE <<>>)
                 \o (IF paper.zotero_collections # <<>>
                     THEN <<Join(Chars(" "), paper.zotero_collections)>> ELSE <<>>)
        text == Strip(Join(Chars(" "), parts))
    IN Prefix(IF Len(text) < 20 THEN Prefix(paper.first_pages_text, 500) ELSE text, 1000)

\* The sentence encoder is a function from texts to unit vectors that the
\* code takes as given.  The model has NumEncoders of them.  Each sends a
\* text to one of EncoderPoints directions, numbered by Direction; encoder e
\* gives the vectors of a document text and a query text the cosine
\* Cosine(e, d, q), in hundredths, which is highest for equal directions and
\* differs from document direction to document direction for every query.
NumEncoders == 2
Encoders == 1..NumEncoders
EncoderPoints == 41
CJKOrder ==
    <<"jing", "liu", "shui", "wen", "mo", "xing", "wu", "hou", "lun", "wen2",
      "bu", "chong", "cai", "liao", "fa", "ming", "zhuan", "li", "zhu",
      "dou", "di", "ti", "qu", "quan", "de", "bei", "jing2",
      "wei", "fen", "lei", "tan", "xiao", "ying", "xun", "huan", "sheng", "tai",
      "dui", "ying3", "xiang">>
CharCodes ==
    StoredMap([c \in Letters \cup CJK |->
        IF c \in Letters THEN CHOOSE k \in 1..26 : LowerSeq[k] = LowerChar(c)
        ELSE 26 + (CHOOSE k \in 1..Len(CJKOrder) : CJKOrder[k] = c)])
CharCode(c) ==
    IF c \in DOMAIN CharCodes THEN CharCodes[c]
    ELSE IF c \in Digits THEN 67
    ELSE 68

\* the sum of i * CharCode(text[i]) over i in lo..hi, by halves
RECURSIVE DirectionFrom(_, _, _)
DirectionFrom(text, lo, hi) ==
    IF lo > hi THEN 0
    ELSE IF lo = hi THEN (lo * CharCode(text[lo])) % EncoderPoints
    ELSE (DirectionFrom(text, lo, (lo + hi) \div 2)
          + DirectionFrom(text, (lo + hi) \div 2 + 1, hi)) % EncoderPoints

Direction(text) == DirectionFrom(text, 1, Len(text))

Cosine(e, d, q) == 96 - 4 * ((e * (d + EncoderPoints - q)) % EncoderPoints)

\* sims[idx] < 0.1
SimFloor == 10

\* build_embeddings(incremental=False) over the stored papers: the file
\* names and vectors of the papers whose embedding text is not blank
build_embeddings_full(papers) ==
    LET texts == [k \in 1..Len(papers) |-> compose_embedding_text(papers[k])]
        kept == SelectSeq([k \in 1..Len(papers) |-> k], LAMBDA k : Strip(texts[k]) # <<>>)
    IN [filenames |-> Stored([j \in 1..Len(kept) |-> papers[kept[j]].filename]),
        vectors |-> Stored([j \in 1..Len(kept) |-> Direction(texts[kept[j]])])]

----------------------------------------------------------------------------
(* search_papers.py: semantic_search *)

\* the RRF constant of semantic_search
SemanticK == 30

\* the greatest k with seq[k] = x: what a dict built by a loop over seq holds
LastIndex(seq, x) ==
    CHOOSE k \in 1..Len(seq) : seq[k] = x /\ \A h \in (k + 1)..Len(seq) : seq[h] # x

\* the members of a set of file names in the iteration order of the seed:
\* the order of the embedding snapshot, or its reverse
FilenameOrder(seed, filenames, set) ==
    LET n == Len(filenames)
        listed == IF seed = 1 THEN filenames ELSE [k \in 1..n |-> filenames[n + 1 - k]]
        first == SelectSeq([k \in 1..n |-> k],
                           LAMBDA k : \A h \in 1..(k - 1) : listed[h] # listed[k])
    IN SelectSeq([j \in 1..Len(first) |-> listed[first[j]]], LAMBDA fn : fn \in set)

\* a skip set of the folder test alone (lines 687-690 left out)
skip_fns_folder_only(papers, folder_filter) ==
    {p.filename : p \in {q \in Range(papers) :
        folder_filter # <<>> /\ ~Contains(q.folder, folder_filter)}}

\* lines 683-694: the file names semantic_search never ranks
skip_fns(papers, folder_filter) ==
    {p.filename : p \in {q \in Range(papers) :
        \/ q.is_scannable
        \/ \E d \in DenyList : Contains(q.filename, d)
        \/ folder_filter # <<>> /\ ~Contains(q.folder, folder_filter)}}

\* the ranking of one query without the test of the floor (lines 706-707
\* left out)
SemanticRankingNoFloor(model, emb_data, q, papers, folder_filter) ==
    LET n == Len(emb_data.filenames)
        sims(qe) == Stored([idx \in 1..n |-> Cosine(model, emb_data.vectors[idx], qe)])
        argsort(sim) == SortedDesc([k \in 1..n |-> n + 1 - k], LAMBDA a, b : sim[a] > sim[b])
        Names(ranked) == Stored([r \in 1..Len(ranked) |-> emb_data.filenames[ranked[r]]])
        Ranked(sim, skip, fn_to_paper) ==
            Names(SelectSeq(argsort(sim), LAMBDA idx :
                      /\ emb_data.filenames[idx] \notin skip
                      /\ emb_data.filenames[idx] \in fn_to_paper))
    IN Ranked(sims(Direction(q)), skip_fns(papers, folder_filter),
              {p.filename : p \in Range(papers)})

\* lines 697-710: the ranking of one query, as the file names in rank order.
\* np.argsort(sims)[::-1] lists the indices by descending similarity, of
\* equal similarities the higher index first; the loop stops at the first
\* eligible entry under the floor, so it ranks the eligible entries at or
\* above it.
SemanticRanking(model, emb_data, q, papers, folder_filter) ==
    LET n == Len(emb_data.filenames)
        sims(qe) == Stored([idx \in 1..n |-> Cosine(model, emb_data.vectors[idx], qe)])
        argsort(sim) == SortedDesc([k \in 1..n |-> n + 1 - k], LAMBDA a, b : sim[a] > sim[b])
        Names(ranked) == Stored([r \in 1..Len(ranked) |-> emb_data.filenames[ranked[r]]])
        \* the loop over np.argsort(sims)[::-1]
        Ranked(sim, skip, fn_to_paper) ==
            Names(SelectSeq(argsort(sim), LAMBDA idx :
                      /\ emb_data.filenames[idx] \notin skip
                      /\ emb_data.filenames[idx] \in fn_to_paper
                      /\ sim[idx] >= SimFloor))
    IN Ranked(sims(Direction(q)), skip_fns(papers, folder_filter),
              {p.filename : p \in Range(papers)})

\* score of fn over rankings[i..]: 1.0 / (k + rank) for every ranking with fn
RECURSIVE RRFSum(_, _, _, _, _)
RRFSum(rankings, i, fn, k, score) ==
    IF i > Len(rankings) THEN score
    ELSE RRFSum(rankings, i + 1, fn, k,
                IF fn \in Range(rankings[i])
                THEN RRFAdd(score, k + LastIndex(rankings[i], fn)) ELSE score)

\* semantic_search(query, papers, top_n, folder_filter), top_n >= 1, with the
\* state it reads (the hash seed, the encoder, the embedding snapshot) as
\* arguments: the results, and the rankings and scores they come from
semantic_run(seed, model, has_emb, emb_data, query, papers, top_n, folder_filter) ==
    LET \* lines 731-741: the result list in the order of sorted_fns
        Listed(all_rankings, iterated, rrf_scores, sorted_fns, query_emb, names) ==
            [results |->
                Stored(Prefix([r \in 1..Len(sorted_fns) |->
                    [sim |-> Cosine(model,
                                    emb_data.vectors[LastIndex(emb_data.filenames,
                                                               sorted_fns[r])],
                                    query_emb),
                     paper |-> papers[LastIndex(names, sorted_fns[r])]]], top_n)),
             rankings |-> all_rankings, keys |-> iterated, scores |-> rrf_scores,
             sorted_fns |-> sorted_fns]
        \* line 729: sorted(all_fns, key=rrf_scores, reverse=True)
        Sorted(all_rankings, iterated, rrf_scores) ==
            Listed(all_rankings, iterated, rrf_scores,
                   SortedDesc(iterated,
                              LAMBDA a, b : RRFGreater(rrf_scores[a], rrf_scores[b])),
                   Direction(query),
                   Stored([k \in 1..Len(papers) |-> papers[k].filename]))
        \* lines 718-722: the RRF score of every file name of all_fns
        Scored(all_rankings, all_fns) ==
            Sorted(all_rankings, FilenameOrder(seed, emb_data.filenames, all_fns),
                   StoredMap([fn \in all_fns |->
                                 RRFSum(all_rankings, 1, fn, SemanticK, RRFZero)]))
        \* lines 714-717: all_fns of the rankings
        Collected(all_rankings) ==
            Scored(all_rankings,
                   UNION {Range(all_rankings[i]) : i \in 1..Len(all_rankings)})
        \* lines 697-711: one ranking per query
        Ranked(queries) ==
            Collected(Stored([i \in 1..Len(queries) |->
                SemanticRanking(model, emb_data, queries[i], papers, folder_filter)]))
        \* lines 672-679: the query, and its translation when it has one
        Translated(en_query) ==
            Ranked(<<query>> \o (IF Strip(en_query) # <<>> /\ en_query # query
                                 THEN <<en_query>> ELSE <<>>))
    IN IF ~has_emb
       THEN [results |-> <<>>, rankings |-> <<>>, keys |-> <<>>, scores |-> <<>>,
             sorted_fns |-> <<>>]
       ELSE Translated(translate_query(query))

semantic_search(seed, model, has_emb, emb_data, query, papers, top_n, folder_filter) ==
    semantic_run(seed, model, has_emb, emb_data, query, papers, top_n,
                 folder_filter).results

----------------------------------------------------------------------------
(* search_papers.py: hybrid_search *)

\* the RRF constants of hybrid_search and the length it asks of a channel
HybridK == 60
HybridKEn == 100
ChannelTopN == 200

\* the file names of a result list, in order
ResultNames(results) == Stored([r \in 1..Len(results) |-> results[r].paper.filename])

\* the channels of a call without the channel of the word-level translation
hybrid_channels_monolingual(seed, model, has_emb, emb_data, query, papers, folder_filter, exclude_fallback, extra_queries) ==
    LET stripped == [i \in 1..Len(extra_queries) |-> Strip(extra_queries[i])]
        extra == SelectSeq(stripped, LAMBDA eq : eq # <<>>)
        Lexical(q) == keyword_search(q, papers, ChannelTopN, folder_filter,
                                     exclude_fallback)
        Semantic(q) == semantic_search(seed, model, has_emb, emb_data, q, papers,
                                       ChannelTopN, folder_filter)
    IN << [channel |-> "kw", k |-> HybridK, results |-> Lexical(query)],
          [channel |-> "sem", k |-> HybridK, results |-> Semantic(query)],
          [channel |-> "en_kw", k |-> HybridKEn, results |-> <<>>] >>
       \o Concat([i \in 1..Len(extra) |->
                    << [channel |-> "eq_kw", k |-> HybridK, results |-> Lexical(extra[i])],
                       [channel |-> "eq_sem", k |-> HybridK,
                        results |-> Semantic(extra[i])] >>])

\* lines 751-822: the channels of a call in the order their ranks are
\* added: the lexical and the semantic results of the query, the lexical
\* results of its word-level translation, then the lexical and the semantic
\* results of every auxiliary query that is not blank
hybrid_channels(seed, model, has_emb, emb_data, query, papers, folder_filter, exclude_fallback, extra_queries) ==
    LET Lexical(q) == keyword_search(q, papers, ChannelTopN, folder_filter,
                                     exclude_fallback)
        Semantic(q) == semantic_search(seed, model, has_emb, emb_data, q, papers,
                                       ChannelTopN, folder_filter)
        en_kw(en_query) == IF is_chinese_query(query) /\ Strip(en_query) # <<>>
                           THEN Lexical(en_query) ELSE <<>>
        en_kw_results == en_kw(translate_query_wordlevel(query))
        stripped == [i \in 1..Len(extra_queries) |-> Strip(extra_queries[i])]
        extra == SelectSeq(stripped, LAMBDA eq : eq # <<>>)
    IN << [channel |-> "kw", k |-> HybridK, results |-> Lexical(query)],
          [channel |-> "sem", k |-> HybridK, results |-> Semantic(query)],
          [channel |-> "en_kw", k |-> HybridKEn, results |-> en_kw_results] >>
       \o Concat([i \in 1..Len(extra) |->
                    << [channel |-> "eq_kw", k |-> HybridK, results |-> Lexical(extra[i])],
                       [channel |-> "eq_sem", k |-> HybridK,
                        results |-> Semantic(extra[i])] >>])

\* loops that score a paper in the first channel that holds it and in no
\* later one (`if fn not in paper_scores` in place of the accumulation)
RECURSIVE FuseOnce(_, _, _, _)
FuseOnce(channels, c, r, paper_scores) ==
    IF c > Len(channels) THEN paper_scores
    ELSE IF r > Len(channels[c].results) THEN FuseOnce(channels, c + 1, 1, paper_scores)
    ELSE LET fn == channels[c].results[r].paper.filename
         IN FuseOnce(channels, c, r + 1,
                IF fn \in DOMAIN paper_scores.score THEN paper_scores
                ELSE [keys |-> Append(paper_scores.keys, fn),
                      score |-> (fn :> RRFAdd(RRFZero, channels[c].k + r))
                                @@ paper_scores.score])

\* the loops over the channels from channel c, rank r on: paper_scores as
\* the keys in the order the dict received them and the score of each
RECURSIVE Fuse(_, _, _, _)
Fuse(channels, c, r, paper_scores) ==
    IF c > Len(channels) THEN paper_scores
    ELSE IF r > Len(channels[c].results) THEN Fuse(channels, c + 1, 1, paper_scores)
    ELSE LET fn == channels[c].results[r].paper.filename
             old == IF fn \in DOMAIN paper_scores.score
                    THEN paper_scores.score[fn] ELSE RRFZero
             new == RRFAdd(old, channels[c].k + r)
         IN Fuse(channels, c, r + 1,
                 [keys |-> IF fn \in DOMAIN paper_scores.score THEN paper_scores.keys
                           ELSE Append(paper_scores.keys, fn),
                  score |-> (fn :> new) @@ paper_scores.score])

\* hybrid_search(query, papers, top_n, folder_filter, exclude_fallback,
\* extra_queries) with the state it reads as arguments: the results, and the
\* channels and scores they come from
hybrid_run(seed, model, has_emb, emb_data, query, papers, top_n, folder_filter, exclude_fallback, extra_queries) ==
    LET \* lines 824-864: the result list in the order of sorted_fns
        Listed(channels, paper_scores, sorted_fns) ==
            LET kw_results == channels[1].results
                sem_results == channels[2].results
                semantic == {c \in 1..Len(channels) :
                                channels[c].channel \in {"sem", "eq_sem"}}
                \* paper_data[fn]: written by the first channel that holds fn
                Data(c, item) ==
                    IF c \in semantic
                    THEN [matched_fields |-> <<"semantic">>, matched_terms |-> {},
                          paper |-> item.paper, kw_score |-> 0]
                    ELSE [matched_fields |-> item.matched_fields,
                          matched_terms |-> item.matched_terms,
                          paper |-> item.paper, kw_score |-> item.score]
                ItemOf(fn, c) ==
                    Data(c, channels[c].results[
                                CHOOSE r \in 1..Len(channels[c].results) :
                                    channels[c].results[r].paper.filename = fn])
                First(fn) ==
                    ItemOf(fn, CHOOSE c \in 1..Len(channels) :
                                /\ fn \in Range(ResultNames(channels[c].results))
                                /\ \A h \in 1..(c - 1) :
                                      fn \notin Range(ResultNames(channels[h].results)))
                SimsOf(fn) == {0} \cup UNION {{channels[c].results[r].sim :
                                  r \in {x \in 1..Len(channels[c].results) :
                                            channels[c].results[x].paper.filename = fn}} :
                                  c \in semantic}
                RankIn(results, fn) ==
                    IF fn \in Range(ResultNames(results))
                    THEN CHOOSE r \in 1..Len(results) : results[r].paper.filename = fn
                    ELSE -1
                Row(fn, data, sims) ==
                    [paper |-> data.paper,
                     rrf_score |-> paper_scores.score[fn],
                     kw_score |-> data.kw_score,
                     sem_sim |-> CHOOSE m \in sims : \A x \in sims : x <= m,
                     kw_rank |-> RankIn(kw_results, fn),
                     sem_rank |-> RankIn(sem_results, fn),
                     matched_fields |-> data.matched_fields,
                     matched_terms |-> data.matched_terms]
                Result(fn) == Row(fn, First(fn), SimsOf(fn))
                Rows(top) == Stored([r \in 1..Len(top) |-> Result(top[r])])
            IN [results |-> Rows(Prefix(sorted_fns, top_n)),
                channels |-> Stored([c \in 1..Len(channels) |->
                                [channel |-> channels[c].channel, k |-> channels[c].k,
                                 ranking |-> ResultNames(channels[c].results)]]),
                keys |-> paper_scores.keys,
                scores |-> paper_scores.score,
                sorted_fns |-> sorted_fns]
        \* line 824: sorted(paper_scores.keys(), key=paper_scores, reverse=True)
        Sorted(channels, paper_scores) ==
            Listed(channels, paper_scores,
                   SortedDesc(paper_scores.keys,
                              LAMBDA a, b : RRFGreater(paper_scores.score[a],
                                                       paper_scores.score[b])))
        \* lines 773-822: paper_scores of the channels
        Fused(channels) ==
            Sorted(channels, Fuse(channels, 1, 1, [keys |-> <<>>, score |-> <<>>]))
    IN Fused(hybrid_channels(seed, model, has_emb, emb_data, query, papers,
                             folder_filter, exclude_fallback, extra_queries))

hybrid_search(seed, model, has_emb, emb_data, query, papers, top_n, folder_filter, exclude_fallback, extra_queries) ==
    hybrid_run(seed, model, has_emb, emb_data, query, papers, top_n, folder_filter,
               exclude_fallback, extra_queries).results

----------------------------------------------------------------------------
(* The environment of build_index: PDFs come, change and go *)

\* the paths the build specification populates
MaxLocal == 3
BuildLocal == 1..MaxLocal
BuildZotero == {1, 2, 3}
\* the local paths whose PDF may be saved damaged
MayBeDamaged == {2}

\* no search call has returned
NoSearch ==
    [op |-> "none", query |-> <<>>, top_n |-> 0, folder_filter |-> <<>>,
     exclude_fallback |-> FALSE, extra_queries |-> <<>>, results |-> <<>>,
     channels |-> <<>>, keys |-> <<>>, scores |-> <<>>, sorted_fns |-> <<>>]

\* lastBuild, survey, zoteroSeen, prevStore and collected describe the
\* build_index call that has just returned; any other step forgets them
Forget ==
    /\ lastBuild' = "none"
    /\ survey' = <<>>
    /\ zoteroSeen' = {}
    /\ prevStore' = <<>>
    /\ collected' = <<>>
    /\ UNCHANGED <<searchVars, sideVars>>

\* a PDF is saved at a local path, intact or damaged
PutLocal(i, c) ==
    /\ fsLocal[i] # c
    /\ fsLocal' = [fsLocal EXCEPT ![i] = c]
    /\ Forget
    /\ UNCHANGED <<fsZotero, storeExists, store>>

RemoveLocal(i) ==
    /\ fsLocal[i] # "absent"
    /\ fsLocal' = [fsLocal EXCEPT ![i] = "absent"]
    /\ Forget
    /\ UNCHANGED <<fsZotero, storeExists, store>>

\* Zotero stores an attachment
PutZotero(i, c) ==
    /\ fsZotero[i] # c
    /\ fsZotero' = [fsZotero EXCEPT ![i] = c]
    /\ Forget
    /\ UNCHANGED <<fsLocal, storeExists, store>>

RemoveZotero(i) ==
    /\ fsZotero[i] # "absent"
    /\ fsZotero' = [fsZotero EXCEPT ![i] = "absent"]
    /\ Forget
    /\ UNCHANGED <<fsLocal, storeExists, store>>

InitBuild ==
    /\ fsLocal = [i \in 1..Len(LocalPaths) |-> "absent"]
    /\ fsZotero = [i \in 1..Len(ZoteroPaths) |-> "absent"]
    /\ storeExists = FALSE
    /\ store = <<>>
    /\ lastBuild = "none"
    /\ survey = <<>>
    /\ zoteroSeen = {}
    /\ prevStore = <<>>
    /\ collected = <<>>
    /\ hashSeed = 1
    /\ encoder = 1
    /\ embExists = FALSE
    /\ emb = [filenames |-> <<>>, vectors |-> <<>>]
    /\ lastSearch = NoSearch
    /\ InitSide

SaveLocal ==
    \E i \in BuildLocal :
        \E c \in {LocalPaths[i].content} \cup (IF i \in MayBeDamaged THEN {"bad"} ELSE {}) :
            PutLocal(i, c)
DeleteLocal == \E i \in BuildLocal : RemoveLocal(i)
SaveZotero == \E i \in BuildZotero : PutZotero(i, ZoteroPaths[i].content)
DeleteZotero == \E i \in BuildZotero : RemoveZotero(i)
BuildFull == \E z \in BOOLEAN : build_index(FALSE, z)
BuildIncremental == \E z \in BOOLEAN : build_index(TRUE, z)

NextBuild ==
    \/ SaveLocal
    \/ DeleteLocal
    \/ SaveZotero
    \/ DeleteZotero
    \/ BuildFull
    \/ BuildIncremental

SpecBuild == InitBuild /\ [][NextBuild]_vars

----------------------------------------------------------------------------
(* Searching a built library *)

\* the paths the search specification populates, at most MaxPapers at once
MaxPapers == 3
SearchLocal == 6..12
SearchZotero == {}

\* what the caller may ask for
Queries == {JingLiu, Chars("runoff"), Chars("SWAT runoff")}
FolderFilters == {<<>>, Chars("H")}
ExtraQueries == {<<>>, <<Chars("hydrology")>>}
TopNs == {2}

\* the corpus a search call loads
Corpus == load_index(store, hashSeed)

\* The index and the embedding snapshot are those a full build_index and a
\* full build_embeddings leave for the PDFs present (Zotero included).
InitSearch ==
    /\ \E L \in SUBSET SearchLocal : \E Z \in SUBSET SearchZotero :
          /\ Cardinality(L) + Cardinality(Z) <= MaxPapers
          /\ fsLocal = [i \in 1..Len(LocalPaths) |->
                           IF i \in L THEN LocalPaths[i].content ELSE "absent"]
          /\ fsZotero = [i \in 1..Len(ZoteroPaths) |->
                            IF i \in Z THEN ZoteroPaths[i].content ELSE "absent"]
    /\ storeExists = TRUE
    /\ store = Dedup(ProcessAll(all_pdfs_info(ScanFrom(LocalPaths, fsLocal, "local", 1),
                                              ScanFrom(ZoteroPaths, fsZotero, "zotero", 1),
                                              TRUE)))
    /\ lastBuild = "none"
    /\ survey = <<>>
    /\ zoteroSeen = {}
    /\ prevStore = <<>>
    /\ collected = <<>>
    /\ hashSeed \in HashSeeds
    /\ encoder \in Encoders
    /\ embExists = (store # <<>>)
    /\ emb = build_embeddings_full(store)
    /\ lastSearch = NoSearch
    /\ InitSide

\* what a search call leaves for its caller to read
KeywordOutcome(query, papers, top_n, folder_filter, exclude_fallback) ==
    [NoSearch EXCEPT
        !.op = "keyword", !.query = query, !.top_n = top_n,
        !.folder_filter = folder_filter, !.exclude_fallback = exclude_fallback,
        !.results = keyword_search(query, papers, top_n, folder_filter,
                                   exclude_fallback)]

SemanticOutcome(query, papers, top_n, folder_filter) ==
    LET Outcome(run) ==
            [NoSearch EXCEPT
                !.op = "semantic", !.query = query, !.top_n = top_n,
                !.folder_filter = folder_filter, !.results = run.results,
                !.channels = Stored([i \in 1..Len(run.rankings) |->
                                        [channel |-> "sem", k |-> SemanticK,
                                         ranking |-> run.rankings[i]]]),
                !.keys = run.keys, !.scores = run.scores,
                !.sorted_fns = run.sorted_fns]
    IN Outcome(semantic_run(hashSeed, encoder, embExists, emb, query, papers,
                            top_n, folder_filter))

HybridOutcome(query, papers, top_n, folder_filter, exclude_fallback, extra_queries) ==
    LET Outcome(run) ==
            [NoSearch EXCEPT
                !.op = "hybrid", !.query = query, !.top_n = top_n,
                !.folder_filter = folder_filter,
                !.exclude_fallback = exclude_fallback,
                !.extra_queries = extra_queries, !.results = run.results,
                !.channels = run.channels, !.keys = run.keys,
                !.scores = run.scores, !.sorted_fns = run.sorted_fns]
    IN Outcome(hybrid_run(hashSeed, encoder, embExists, emb, query, papers,
                          top_n, folder_filter, exclude_fallback, extra_queries))

\* search_papers.py --keyword: keyword_search on the loaded index
KeywordSearch ==
    /\ lastSearch.op = "none"
    /\ \E query \in Queries, top_n \in TopNs, folder_filter \in FolderFilters,
          exclude_fallback \in BOOLEAN :
          lastSearch' = KeywordOutcome(query, Corpus, top_n, folder_filter,
                                       exclude_fallback)
    /\ UNCHANGED <<buildVars, hashSeed, encoder, embExists, emb, sideVars>>

\* search_papers.py --semantic: semantic_search on the loaded index
SemanticSearch ==
    /\ lastSearch.op = "none"
    /\ \E query \in Queries, top_n \in TopNs, folder_filter \in FolderFilters :
          lastSearch' = SemanticOutcome(query, Corpus, top_n, folder_filter)
    /\ UNCHANGED <<buildVars, hashSeed, encoder, embExists, emb, sideVars>>

\* search_papers.py (default mode): hybrid_search on the loaded index
HybridSearch ==
    /\ lastSearch.op = "none"
    /\ \E query \in Queries, top_n \in TopNs, folder_filter \in FolderFilters,
          exclude_fallback \in BOOLEAN, extra_queries \in ExtraQueries :
          lastSearch' = HybridOutcome(query, Corpus, top_n, folder_filter,
                                      exclude_fallback, extra_queries)
    /\ UNCHANGED <<buildVars, hashSeed, encoder, embExists, emb, sideVars>>

\* the caller has read the results
Return ==
    /\ lastSearch.op # "none"
    /\ lastSearch' = NoSearch
    /\ UNCHANGED <<buildVars, hashSeed, encoder, embExists, emb, sideVars>>

NextSearch ==
    \/ KeywordSearch
    \/ SemanticSearch
    \/ HybridSearch
    \/ Return

SpecSearch == InitSearch /\ [][NextSearch]_vars

----------------------------------------------------------------------------
(* hybrid_search on a three-paper library, whatever the encoder returns *)

\* hybrid_search(query, papers, top_n=10, ...)
DefaultTopN == 10

\* an English paper on runoff, a Chinese paper on runoff and an English paper
\* on another subject
CrossLocal == {5, 7, 10}

\* the directions a stored vector may have: next to the query's, next to its
\* translation's, away from both
CrossDirs == {1, 20, 35}

\* "runoff" in Chinese; "runoff of Beijing" (five Chinese characters, two of
\* them in the dictionary); "Beijing Beijing runoff"; an English query
CrossQueries ==
    {JingLiu, BeiJing \o <<"de">> \o JingLiu, BeiJing \o BeiJing \o JingLiu,
     Chars("runoff")}

\* The index is the one a full build_index leaves for the three PDFs; the
\* embedding snapshot holds one vector for each of them.
InitCross ==
    /\ fsLocal = [i \in 1..Len(LocalPaths) |->
                     IF i \in CrossLocal THEN LocalPaths[i].content ELSE "absent"]
    /\ fsZotero = [i \in 1..Len(ZoteroPaths) |-> "absent"]
    /\ storeExists = TRUE
    /\ store = Dedup(ProcessAll(all_pdfs_info(ScanFrom(LocalPaths, fsLocal, "local", 1),
                                              <<>>, TRUE)))
    /\ lastBuild = "none"
    /\ survey = <<>>
    /\ zoteroSeen = {}
    /\ prevStore = <<>>
    /\ collected = <<>>
    /\ hashSeed \in HashSeeds
    /\ encoder \in Encoders
    /\ embExists \in BOOLEAN
    /\ \E vectors \in [1..Cardinality(CrossLocal) -> CrossDirs] :
          emb = [filenames |-> build_embeddings_full(store).filenames,
                 vectors |-> vectors]
    /\ lastSearch = NoSearch
    /\ InitSide

\* search_papers.py (default mode, default top_n): hybrid_search
CrossSearch ==
    /\ lastSearch.op = "none"
    /\ \E query \in CrossQueries :
          lastSearch' = HybridOutcome(query, Corpus, DefaultTopN, <<>>, FALSE, <<>>)
    /\ UNCHANGED <<buildVars, hashSeed, encoder, embExists, emb, sideVars>>

NextCross ==
    \/ CrossSearch
    \/ Return

SpecCross == InitCross /\ [][NextCross]_vars

----------------------------------------------------------------------------
(* keyword_search on small libraries, for queries of one and of two terms *)

\* keyword_search(query, papers, top_n=50, ...)
KeywordTopN == 50

\* the PDFs a scored library may hold
ScoreLocal == {5, 6, 10, 11}

\* queries of one and of two terms, in lower and in upper case
ScoreQueries ==
    {Chars("runoff"), Chars("SWAT"), Chars("runoff hydrology"),
     Chars("RUNOFF hydrology"), Chars("RUNOFF HYDROLOGY"), Chars("swat runoff"),
     Chars("SWAT runoff"), Chars("carbon runoff")}

\* The index and the embedding snapshot are those a full build_index and a
\* full build_embeddings leave for the PDFs present.
InitScore ==
    /\ \E L \in SUBSET ScoreLocal :
          fsLocal = [i \in 1..Len(LocalPaths) |->
                        IF i \in L THEN LocalPaths[i].content ELSE "absent"]
    /\ fsZotero = [i \in 1..Len(ZoteroPaths) |-> "absent"]
    /\ storeExists = TRUE
    /\ store = Dedup(ProcessAll(all_pdfs_info(ScanFrom(LocalPaths, fsLocal, "local", 1),
                                              <<>>, TRUE)))
    /\ lastBuild = "none"
    /\ survey = <<>>
    /\ zoteroSeen = {}
    /\ prevStore = <<>>
    /\ collected = <<>>
    /\ hashSeed \in HashSeeds
    /\ encoder \in Encoders
    /\ embExists = (store # <<>>)
    /\ emb = build_embeddings_full(store)
    /\ lastSearch = NoSearch
    /\ InitSide

\* search_papers.py --keyword (default top_n): keyword_search
ScoreSearch ==
    /\ lastSearch.op = "none"
    /\ \E query \in ScoreQueries :
          lastSearch' = KeywordOutcome(query, Corpus, KeywordTopN, <<>>, FALSE)
    /\ UNCHANGED <<buildVars, hashSeed, encoder, embExists, emb, sideVars>>

NextScore ==
    \/ ScoreSearch
    \/ Return

SpecScore == InitScore /\ [][NextScore]_vars

----------------------------------------------------------------------------
(* search_papers.py: find_similar *)

\* lines 879-881: the text a paper is searched by
search_text(target) ==
    LET text == target.keywords \o Chars(" ") \o Prefix(target.abstract, 200)
    IN IF Strip(text) = <<>> THEN Prefix(target.first_pages_text, 500) ELSE text

\* a recommender that leaves the paper asked about in its list (line 887
\* without the test of the file name)
find_similar_with_target(seed, model, has_emb, emb_data, query_name, papers, top_n) ==
    LET hits == {k \in 1..Len(papers) :
                    Contains(Lower(papers[k].filename), Lower(query_name))}
        Found(target) ==
            LET Cut(run) == [results |-> Prefix(run.results, top_n),
                             source |-> target.filename,
                             query |-> search_text(target), run |-> run]
            IN Cut(hybrid_run(seed, model, has_emb, emb_data, search_text(target),
                              papers, top_n + 1, <<>>, FALSE, <<>>))
    IN IF hits = {}
       THEN [results |-> <<>>, source |-> query_name, query |-> <<>>,
             run |-> [results |-> <<>>, channels |-> <<>>, keys |-> <<>>,
                      scores |-> <<>>, sorted_fns |-> <<>>]]
       ELSE Found(papers[CHOOSE k \in hits : \A h \in hits : k <= h])

\* find_similar(query_name, papers, top_n) with the state it reads as
\* arguments: the results and the source it returns, and the synthetic query
\* and the hybrid search they come from (none when no file name holds
\* query_name)
find_similar(seed, model, has_emb, emb_data, query_name, papers, top_n) ==
    LET hits == {k \in 1..Len(papers) :
                    Contains(Lower(papers[k].filename), Lower(query_name))}
        Found(target) ==
            LET Cut(run) ==
                    [results |->
                        Prefix(SelectSeq(run.results,
                                   LAMBDA r : r.paper.filename # target.filename),
                               top_n),
                     source |-> target.filename,
                     query |-> search_text(target), run |-> run]
            IN Cut(hybrid_run(seed, model, has_emb, emb_data, search_text(target),
                              papers, top_n + 1, <<>>, FALSE, <<>>))
    IN IF hits = {}
       THEN [results |-> <<>>, source |-> query_name, query |-> <<>>,
             run |-> [results |-> <<>>, channels |-> <<>>, keys |-> <<>>,
                      scores |-> <<>>, sorted_fns |-> <<>>]]
       ELSE Found(papers[CHOOSE k \in hits : \A h \in hits : k <= h])

\* the names and the list lengths asked of the recommender
SimilarNames ==
    {Chars("runoff"), Chars("CARBON"), JingLiu, Chars(".pdf"), Chars("swat")}
SimilarTopNs == {1, 2}

\* what a call of find_similar leaves for its caller to read
SimilarOutcome(found, top_n) ==
    [NoSearch EXCEPT
        !.op = "similar", !.query = found.query, !.top_n = top_n,
        !.results = found.results, !.channels = found.run.channels,
        !.keys = found.run.keys, !.scores = found.run.scores,
        !.sorted_fns = found.run.sorted_fns]

\* search_papers.py --similar: find_similar on the loaded index
FindSimilar ==
    /\ lastSearch.op = "none"
    /\ \E query_name \in SimilarNames, top_n \in SimilarTopNs :
          LET Called(found) ==
                  /\ lastSearch' = SimilarOutcome(found, top_n)
                  /\ applied' = [fn |-> "find_similar", arg |-> query_name,
                                 value |-> found.source]
          IN Called(find_similar(hashSeed, encoder, embExists, emb, query_name,
                                 Corpus, top_n))
    /\ UNCHANGED <<buildVars, hashSeed, encoder, embExists, emb, writer, reader>>

\* the caller has read the recommendations
ReturnSimilar ==
    /\ lastSearch.op = "similar"
    /\ lastSearch' = NoSearch
    /\ applied' = NoCall
    /\ UNCHANGED <<buildVars, hashSeed, encoder, embExists, emb, writer, reader>>

NextSimilar ==
    \/ FindSimilar
    \/ ReturnSimilar

SpecSimilar == InitCross /\ [][NextSimilar]_vars

----------------------------------------------------------------------------
(* build_embeddings.py: build_embeddings; search_papers.py: load_embeddings *)

\* a build_embeddings that, run incrementally, embeds every stored paper
\* again and puts the result after the snapshot it finds
build_embeddings_appending(model_name, incremental, papers, has_emb, emb_data) ==
    LET Appended(base, embedded) ==
            IF embedded = <<>>
            THEN [saved |-> FALSE, model_name |-> model_name, data |-> emb_data]
            ELSE [saved |-> TRUE, model_name |-> model_name,
                  data |->
                     [filenames |->
                         Stored(base.filenames
                                \o [k \in 1..Len(embedded) |-> embedded[k].filename]),
                      vectors |->
                         Stored(base.vectors
                                \o [k \in 1..Len(embedded) |->
                                       Direction(compose_embedding_text(embedded[k]))]),
                      made_by |->
                         Stored(base.made_by
                                \o [k \in 1..Len(embedded) |-> model_name])]]
    IN Appended(IF incremental /\ has_emb THEN emb_data
                ELSE [filenames |-> <<>>, vectors |-> <<>>, made_by |-> <<>>],
                SelectSeq(papers, LAMBDA p : Strip(compose_embedding_text(p)) # <<>>))

\* build_embeddings(model_name, incremental) on the stored papers with the
\* snapshot it finds (has_emb, emb_data): whether it saved a snapshot, and
\* the snapshot it leaves, made_by naming the model that encoded each vector
build_embeddings(model_name, incremental, papers, has_emb, emb_data) ==
    LET merging == incremental /\ has_emb
        \* lines 147-156 and 161-167: the saved file names and vectors
        Saved(existing_filenames, embedded) ==
            LET current_filenames == {p.filename : p \in Range(papers)}
                keep_indices ==
                    SelectSeq([i \in 1..Len(existing_filenames) |-> i],
                              LAMBDA i : existing_filenames[i] \in current_filenames)
                Merged(kept) ==
                    [saved |-> TRUE, model_name |-> model_name,
                     data |->
                        [filenames |->
                            Stored([j \in 1..Len(kept) |-> emb_data.filenames[kept[j]]]
                                   \o [k \in 1..Len(embedded) |-> embedded[k].filename]),
                         vectors |->
                            Stored([j \in 1..Len(kept) |-> emb_data.vectors[kept[j]]]
                                   \o [k \in 1..Len(embedded) |->
                                          Direction(compose_embedding_text(embedded[k]))]),
                         made_by |->
                            Stored([j \in 1..Len(kept) |-> emb_data.made_by[kept[j]]]
                                   \o [k \in 1..Len(embedded) |-> model_name])]]
            IN Merged(keep_indices)
        \* lines 102-115: the new papers with a text to embed
        Prepared(existing_filenames, new_papers) ==
            IF merging /\ new_papers = <<>>
            THEN [saved |-> FALSE, model_name |-> model_name, data |-> emb_data]
            ELSE LET Embedded(embedded) ==
                         IF embedded = <<>>
                         THEN [saved |-> FALSE, model_name |-> model_name,
                               data |-> emb_data]
                         ELSE Saved(existing_filenames, embedded)
                 IN Embedded(SelectSeq(new_papers,
                        LAMBDA p : Strip(compose_embedding_text(p)) # <<>>))
        \* lines 84-100: the snapshot found and the papers it lacks
        Found(existing_filenames) ==
            Prepared(existing_filenames,
                     IF merging
                     THEN SelectSeq(papers,
                              LAMBDA p : p.filename \notin Range(existing_filenames))
                     ELSE papers)
    IN Found(IF merging THEN emb_data.filenames ELSE <<>>)

\* load_embeddings(): None without a snapshot, else its vectors, file names
\* and model_name, and the positions of the file names
load_embeddings(has_emb, emb_data, model_name) ==
    IF ~has_emb THEN [loaded |-> FALSE]
    ELSE [loaded |-> TRUE,
          embeddings |-> emb_data.vectors,
          filenames |-> emb_data.filenames,
          model_name |-> model_name,
          filename_to_idx |->
              StoredMap([fn \in Range(emb_data.filenames) |->
                            LastIndex(emb_data.filenames, fn)])]

\* the PDFs that come and go while the snapshots are rebuilt
EmbedLocal == {5, 10}
EmbedQuery == Chars("runoff")

InitEmbed ==
    /\ fsLocal = [i \in 1..Len(LocalPaths) |-> "absent"]
    /\ fsZotero = [i \in 1..Len(ZoteroPaths) |-> "absent"]
    /\ storeExists = FALSE
    /\ store = <<>>
    /\ lastBuild = "none"
    /\ survey = <<>>
    /\ zoteroSeen = {}
    /\ prevStore = <<>>
    /\ collected = <<>>
    /\ hashSeed = 1
    /\ encoder = 1
    /\ embExists = FALSE
    /\ emb = [filenames |-> <<>>, vectors |-> <<>>, made_by |-> <<>>]
    /\ lastSearch = NoSearch
    /\ InitSide

\* a PDF is saved in the library, or deleted from it
SaveEmbedded == \E i \in EmbedLocal : PutLocal(i, LocalPaths[i].content)
DeleteEmbedded == \E i \in EmbedLocal : RemoveLocal(i)

\* build_paper_index.py on the local library
IndexEmbedded == build_index(FALSE, FALSE)

\* build_embeddings.py [--model model_name] [--incr]; encoder is the
\* model_name of the snapshot
BuildEmbeddings ==
    /\ storeExists
    /\ lastSearch.op = "none"
    /\ \E model_name \in Encoders, incremental \in BOOLEAN :
          LET Run(built) ==
                  /\ embExists' = (embExists \/ built.saved)
                  /\ emb' = built.data
                  /\ encoder' = IF built.saved THEN built.model_name ELSE encoder
                  /\ applied' = [fn |-> "build_embeddings",
                                 arg |-> <<model_name, incremental>>,
                                 value |-> {built.saved}]
          IN Run(build_embeddings(model_name, incremental, store, embExists, emb))
    /\ UNCHANGED <<buildVars, hashSeed, lastSearch, writer, reader>>

\* search_papers.py --semantic, or in its default mode: load_index, and
\* load_embeddings inside semantic_search
EmbedSearch ==
    /\ storeExists
    /\ lastSearch.op = "none"
    /\ reader' = [file |-> "embeddings", whole |-> TRUE,
                  data |-> load_embeddings(embExists, emb, encoder)]
    /\ \/ lastSearch' = SemanticOutcome(EmbedQuery, Corpus, DefaultTopN, <<>>)
       \/ lastSearch' = HybridOutcome(EmbedQuery, Corpus, DefaultTopN, <<>>, FALSE, <<>>)
    /\ UNCHANGED <<buildVars, hashSeed, encoder, embExists, emb, writer, applied>>

\* the search process ends
ReturnEmbed ==
    /\ lastSearch.op # "none"
    /\ lastSearch' = NoSearch
    /\ reader' = NoRead
    /\ UNCHANGED <<buildVars, hashSeed, encoder, embExists, emb, writer, applied>>

NextEmbed ==
    \/ SaveEmbedded
    \/ DeleteEmbedded
    \/ IndexEmbedded
    \/ BuildEmbeddings
    \/ EmbedSearch
    \/ ReturnEmbed

SpecEmbed == InitEmbed /\ [][NextEmbed]_vars

----------------------------------------------------------------------------
(* build_paper_index.py, build_embeddings.py: the snapshot files while they
   are written; search_papers.py: load_index, load_embeddings *)

\* In this specification store and emb are the last versions of the two
\* files that were written to the end.  A build opens the file itself for
\* writing, which empties it, and writer.flushed is the number of entries of
\* writer.data the file holds so far.

\* the papers a full build_index of the local library writes
IndexPapers ==
    Dedup(ProcessAll(new_pdfs_info(FALSE,
        all_pdfs_info(ScanFrom(LocalPaths, fsLocal, "local", 1), <<>>, FALSE))))

\* the bytes of a snapshot file at this instant: whether they are a version
\* written to the end, and the entries they hold
OnDisk(file) ==
    IF writer.file = file
    THEN [whole |-> FALSE,
          data |-> IF file = "index" THEN SubSeq(writer.data, 1, writer.flushed)
                   ELSE SubSeq(writer.data.filenames, 1, writer.flushed)]
    ELSE [whole |-> TRUE,
          data |-> IF file = "index" THEN store ELSE emb.filenames]

\* a snapshot file is there to be opened
FileExists(file) ==
    \/ writer.file = file
    \/ IF file = "index" THEN storeExists ELSE embExists

\* build_index, line 933: open(OUTPUT_JSON, "w")
OpenIndex ==
    /\ writer.file = "none"
    /\ writer' = [file |-> "index", data |-> IndexPapers, flushed |-> 0]
    /\ UNCHANGED <<buildVars, searchVars, reader, applied>>

\* build_index, line 934: json.dump writes on
FlushIndex ==
    /\ writer.file = "index"
    /\ writer.flushed < Len(writer.data)
    /\ writer' = [writer EXCEPT !.flushed = @ + 1]
    /\ UNCHANGED <<buildVars, searchVars, reader, applied>>

\* build_index, line 934: the with block closes the file
CloseIndex ==
    /\ writer.file = "index"
    /\ writer.flushed = Len(writer.data)
    /\ store' = writer.data
    /\ storeExists' = TRUE
    /\ writer' = NoWriter
    /\ UNCHANGED <<fsLocal, fsZotero, lastBuild, survey, zoteroSeen, prevStore,
                   collected, searchVars, reader, applied>>

\* build_embeddings, line 163: np.savez_compressed opens EMBEDDINGS_PATH
OpenEmbeddings ==
    /\ writer.file = "none"
    /\ storeExists
    /\ \E incremental \in BOOLEAN :
          LET Open(built) ==
                  /\ built.saved
                  /\ writer' = [file |-> "embeddings", data |-> built.data,
                                flushed |-> 0]
          IN Open(build_embeddings(encoder, incremental, store, embExists, emb))
    /\ UNCHANGED <<buildVars, searchVars, reader, applied>>

\* build_embeddings, lines 163-168: the arrays are written
FlushEmbeddings ==
    /\ writer.file = "embeddings"
    /\ writer.flushed < Len(writer.data.filenames)
    /\ writer' = [writer EXCEPT !.flushed = @ + 1]
    /\ UNCHANGED <<buildVars, searchVars, reader, applied>>

\* build_embeddings, line 168: np.savez_compressed closes the file
CloseEmbeddings ==
    /\ writer.file = "embeddings"
    /\ writer.flushed = Len(writer.data.filenames)
    /\ emb' = writer.data
    /\ embExists' = TRUE
    /\ writer' = NoWriter
    /\ UNCHANGED <<buildVars, hashSeed, encoder, lastSearch, reader, applied>>

\* search_papers.py: load_index, or load_embeddings, reads the file as it is
LoadSnapshot ==
    /\ reader.file = "none"
    /\ \E file \in {"index", "embeddings"} :
          /\ FileExists(file)
          /\ reader' = [file |-> file, whole |-> OnDisk(file).whole,
                        data |-> OnDisk(file).data]
    /\ UNCHANGED <<buildVars, searchVars, writer, applied>>

\* the search process ends
ReturnLoad ==
    /\ reader.file # "none"
    /\ reader' = NoRead
    /\ UNCHANGED <<buildVars, searchVars, writer, applied>>

NextWrite ==
    \/ SaveEmbedded
    \/ DeleteEmbedded
    \/ OpenIndex
    \/ FlushIndex
    \/ CloseIndex
    \/ OpenEmbeddings
    \/ FlushEmbeddings
    \/ CloseEmbeddings
    \/ LoadSnapshot
    \/ ReturnLoad

SpecWrite == InitEmbed /\ [][NextWrite]_vars

----------------------------------------------------------------------------
(* build_paper_index.py and search_papers.py: tokenize applied to a text *)

\* the characters of the texts given to the tokenizer, and the code points of
\* the characters of texts and terms
TokenChars == {" ", "-", "1", "B", "a", "jing", "liu", "de"}
ord(c) ==
    CASE c = " " -> 32 [] c = "-" -> 45 [] c = "1" -> 49 [] c = "B" -> 66
      [] c = "a" -> 97 [] c = "b" -> 98 [] c = "jing" -> 24452 [] c = "liu" -> 27969
      [] c = "de" -> 30340 [] c = "wu" -> 29289 [] c = "hou" -> 20505
      [] c = "dui" -> 23545 [] c = "shui" -> 27700 [] c = "wen" -> 25991
      [] c = "ying3" -> 24433 [] c = "xiang" -> 21709

\* a < b for two Python strings
StrLess(a, b) ==
    LET Decide(differ) ==
            IF differ = {} THEN Len(a) < Len(b)
            ELSE LET i == CHOOSE j \in differ : \A h \in differ : j <= h
                 IN ord(a[i]) < ord(b[i])
    IN Decide({j \in 1..Len(a) : j <= Len(b) /\ a[j] # b[j]})

\* sorted(tokens) for a set of strings
sorted(tokens) ==
    Stored([p \in 1..Cardinality(tokens) |->
               CHOOSE t \in tokens :
                   Cardinality({u \in tokens : StrLess(u, t)}) = p - 1])

\* build_paper_index.py, tokenize(text): the sorted list of the terms
tokenize_index(text) == sorted(tokenize(text))

\* the longest text given to the tokenizer, and the calls made on a text
MaxLen == 4
MaxCalls == 2
TokenTexts == UNION {[1..n -> TokenChars] : n \in 0..MaxLen}

InitTokenize ==
    /\ fsLocal = [i \in 1..Len(LocalPaths) |-> "absent"]
    /\ fsZotero = [i \in 1..Len(ZoteroPaths) |-> "absent"]
    /\ storeExists = FALSE
    /\ store = <<>>
    /\ lastBuild = "none"
    /\ survey = <<>>
    /\ zoteroSeen = {}
    /\ prevStore = <<>>
    /\ collected = <<>>
    /\ hashSeed = 1
    /\ encoder = 1
    /\ embExists = FALSE
    /\ emb = [filenames |-> <<>>, vectors |-> <<>>]
    /\ lastSearch = NoSearch
    /\ writer = NoWriter
    /\ reader = NoRead
    /\ \E text \in TokenTexts : applied = [fn |-> "tokenize", arg |-> text, value |-> <<>>]

\* build_paper_index.py: tokenize(text), once more on the same text
TokenizeIndex ==
    /\ applied.fn = "tokenize"
    /\ Len(applied.value) < MaxCalls
    /\ applied' = [applied EXCEPT !.value =
                      Append(@, [at |-> "build", terms |-> tokenize_index(applied.arg)])]
    /\ UNCHANGED <<buildVars, searchVars, writer, reader>>

\* search_papers.py: tokenize(text), once more on the same text
TokenizeSearch ==
    /\ applied.fn = "tokenize"
    /\ Len(applied.value) < MaxCalls
    /\ applied' = [applied EXCEPT !.value =
                      Append(@, [at |-> "query", terms |-> tokenize(applied.arg)])]
    /\ UNCHANGED <<buildVars, searchVars, writer, reader>>

NextTokenize == TokenizeIndex \/ TokenizeSearch

SpecTokenize == InitTokenize /\ [][NextTokenize]_vars

----------------------------------------------------------------------------
(* search_papers.py: _translate_query and _translate_query_wordlevel applied
   to a query *)

\* the characters of the queries given to the translators, and the longest
\* query
QueryChars == {"wu", "hou", "dui", "shui", "wen", "de", "ying3", "xiang", "jing", "liu"}
MaxQueryLen == 3
TranslatedQueries == UNION {[1..n -> QueryChars] : n \in 0..MaxQueryLen}

InitTranslate ==
    /\ fsLocal = [i \in 1..Len(LocalPaths) |-> "absent"]
    /\ fsZotero = [i \in 1..Len(ZoteroPaths) |-> "absent"]
    /\ storeExists = FALSE
    /\ store = <<>>
    /\ lastBuild = "none"
    /\ survey = <<>>
    /\ zoteroSeen = {}
    /\ prevStore = <<>>
    /\ collected = <<>>
    /\ hashSeed = 1
    /\ encoder = 1
    /\ embExists = FALSE
    /\ emb = [filenames |-> <<>>, vectors |-> <<>>]
    /\ lastSearch = NoSearch
    /\ writer = NoWriter
    /\ reader = NoRead
    /\ \E query \in TranslatedQueries :
          applied = [fn |-> "query", arg |-> query, value |-> <<>>]

\* semantic_search, line 673: _translate_query(query)
TranslateQuery ==
    /\ applied.fn = "query"
    /\ applied' = [applied EXCEPT !.fn = "translate_query",
                                  !.value = translate_query(applied.arg)]
    /\ UNCHANGED <<buildVars, searchVars, writer, reader>>

\* hybrid_search, line 766: _translate_query_wordlevel(query)
TranslateWordLevel ==
    /\ applied.fn = "query"
    /\ applied' = [applied EXCEPT !.fn = "translate_query_wordlevel",
                                  !.value = translate_query_wordlevel(applied.arg)]
    /\ UNCHANGED <<buildVars, searchVars, writer, reader>>

NextTranslate == TranslateQuery \/ TranslateWordLevel

SpecTranslate == InitTranslate /\ [][NextTranslate]_vars

----------------------------------------------------------------------------
(* search_papers.py: load_embeddings and its module-level _embeddings_cache
   in a process that searches more than once *)

\* load_embeddings, lines 632-649, with cache the dict _embeddings_cache as
\* the process holds it (NoRead: no 'data' in it): the cached value if
\* there is one, else None without caching if the file is missing, else the
\* loaded file, which is cached
load_embeddings_cached(cache, has_emb, emb_data, model_name) ==
    IF cache.file = "embeddings" THEN [cache |-> cache, result |-> cache.data]
    ELSE LET Loaded(result) ==
                 [cache |-> IF result.loaded
                            THEN [file |-> "embeddings", whole |-> TRUE, data |-> result]
                            ELSE cache,
                  result |-> result]
         IN Loaded(load_embeddings(has_emb, emb_data, model_name))

\* the process starts, with _embeddings_cache = {}, before any snapshot is
\* built
InitCache == InitEmbed

\* semantic_search(query, papers) called in the process on a freshly loaded
\* index: line 667 takes emb_data from load_embeddings, the lines after it
\* use emb_data['model_name'], emb_data['embeddings'] and
\* emb_data['filenames']
CachedSearch ==
    /\ storeExists
    /\ lastSearch.op = "none"
    /\ LET Search(got) ==
               /\ reader' = got.cache
               /\ lastSearch' =
                     [NoSearch EXCEPT
                         !.op = "semantic", !.query = EmbedQuery,
                         !.top_n = DefaultTopN,
                         !.results =
                             IF got.result.loaded
                             THEN semantic_search(hashSeed, got.result.model_name, TRUE,
                                                  [filenames |-> got.result.filenames,
                                                   vectors |-> got.result.embeddings],
                                                  EmbedQuery, Corpus, DefaultTopN, <<>>)
                             ELSE <<>>]
       IN Search(load_embeddings_cached(reader, embExists, emb, encoder))
    /\ UNCHANGED <<buildVars, hashSeed, encoder, embExists, emb, writer, applied>>

\* the call returns to the process, which keeps its module state
CachedReturn ==
    /\ lastSearch.op # "none"
    /\ lastSearch' = NoSearch
    /\ UNCHANGED <<buildVars, hashSeed, encoder, embExists, emb, sideVars>>

\* the process ends and another starts
Restart ==
    /\ lastSearch.op = "none"
    /\ reader # NoRead
    /\ reader' = NoRead
    /\ UNCHANGED <<buildVars, searchVars, writer, applied>>

\* the library and both snapshots change between the calls of the process
NextCache ==
    \/ lastSearch.op = "none" /\ SaveEmbedded
    \/ lastSearch.op = "none" /\ DeleteEmbedded
    \/ lastSearch.op = "none" /\ IndexEmbedded
    \/ BuildEmbeddings
    \/ CachedSearch
    \/ CachedReturn
    \/ Restart

SpecCache == InitCache /\ [][NextCache]_vars

----------------------------------------------------------------------------
(* build_paper_index.py: the deduplication loop of build_index applied to a
   list of papers *)

\* the file names of the papers, the folders that tell two papers of one
\* name apart, and the longest list
DedupNames == {Chars("a.pdf"), Chars("1-a.pdf"), Chars("2.a.pdf"), Chars("b.pdf")}
DedupFolders == {Chars("E"), Chars("M")}
MaxDocs == 4
DedupPapers == [filename : DedupNames, folder : DedupFolders]
DedupLists == UNION {[1..n -> DedupPapers] : n \in 0..MaxDocs}

InitDedup ==
    /\ fsLocal = [i \in 1..Len(LocalPaths) |-> "absent"]
    /\ fsZotero = [i \in 1..Len(ZoteroPaths) |-> "absent"]
    /\ storeExists = FALSE
    /\ store = <<>>
    /\ lastBuild = "none"
    /\ survey = <<>>
    /\ zoteroSeen = {}
    /\ prevStore = <<>>
    /\ collected = <<>>
    /\ hashSeed = 1
    /\ encoder = 1
    /\ embExists = FALSE
    /\ emb = [filenames |-> <<>>, vectors |-> <<>>]
    /\ lastSearch = NoSearch
    /\ writer = NoWriter
    /\ reader = NoRead
    /\ \E papers \in DedupLists :
          applied = [fn |-> "papers", arg |-> papers, value |-> <<>>]

\* build_index, lines 872-886: the loop over papers
Deduplicate ==
    /\ applied.fn = "papers"
    /\ applied' = [applied EXCEPT !.fn = "deduped", !.value = Dedup(applied.arg)]
    /\ UNCHANGED <<buildVars, searchVars, writer, reader>>

NextDedup == Deduplicate

SpecDedup == InitDedup /\ [][NextDedup]_vars

----------------------------------------------------------------------------
(* Claims about build_index *)

Norm(p) == normalize_filename(p.filename)

\* C1: after the dedup pass the retained documents are exactly the collected
\* documents that are first of their normalized file name, in collection
\* order; so of "03-foo.pdf" (earlier) and "foo.pdf" (later) only the first
\* is retained, and no two retained documents share a file name or a
\* normalized file name.
C1_DedupKeepsFirst ==
    lastBuild # "none" =>
        LET first == {i \in 1..Len(collected) :
                         \A j \in 1..(i - 1) : Norm(collected[j]) # Norm(collected[i])}
        IN /\ {store[k] : k \in 1..Len(store)} = {collected[i] : i \in first}
           /\ Len(store) = Cardinality(first)
           /\ \A a, b \in 1..Len(store) :
                 a < b => \E i, j \in first :
                             i < j /\ collected[i] = store[a] /\ collected[j] = store[b]
           /\ \A a, b \in 1..Len(store) :
                 a # b => /\ store[a].filename # store[b].filename
                          /\ Norm(store[a]) # Norm(store[b])

C1_Witness ==
    /\ lastBuild # "none"
    /\ \E i, j \in 1..Len(collected) :
          /\ i < j
          /\ collected[i].filename = Chars("03-foo.pdf")
          /\ collected[j].filename = Chars("foo.pdf")
    /\ Chars("03-foo.pdf") \in NamesOf(store)
    /\ Chars("foo.pdf") \notin NamesOf(store)

\* C2: in every build, when a surveyed local PDF and a surveyed Zotero PDF
\* share a file name or a normalized file name, the record retained for that
\* name is the local one.
C2_LocalBeforeZotero ==
    lastBuild # "none" =>
        \A k \in 1..Len(survey) : \A z \in zoteroSeen :
            (survey[k].source = "local"
                /\ normalize_filename(survey[k].filename) = normalize_filename(z))
            => /\ \E a \in 1..Len(store) : Norm(store[a]) = Norm(survey[k])
               /\ \A a \in 1..Len(store) :
                     Norm(store[a]) = Norm(survey[k]) => store[a].source = "local"

\* C3: an incremental build keeps the record of every document of the
\* existing store that is still surveyed exactly as it was.
C3_ExistingUntouched ==
    lastBuild = "incr" =>
        \A k \in 1..Len(prevStore) :
            prevStore[k].filename \in NamesOf(survey)
                => \E a \in 1..Len(store) : store[a] = prevStore[k]

\* an incremental build kept a record that processing the file now would
\* not reproduce, next to a newly processed one
C3_Witness ==
    /\ lastBuild = "incr"
    /\ Len(collected) > Len(prevStore)
    /\ \E k \in 1..Len(prevStore) : \E e \in 1..Len(survey) :
          /\ survey[e].filename = prevStore[k].filename
          /\ prevStore[k] # ProcessAll(survey)[e]
          /\ \E a \in 1..Len(store) : store[a] = prevStore[k]

\* C4: after an incremental build the store holds no document whose name is
\* absent from the survey, and holds every surveyed name that was not in the
\* existing store unless the dedup pass dropped it for a kept document of
\* the same normalized name.
C4_EvictAndAdd ==
    lastBuild = "incr" =>
        /\ NamesOf(store) \subseteq NamesOf(survey)
        /\ \A e \in 1..Len(survey) :
              survey[e].filename \notin NamesOf(prevStore)
                => \/ survey[e].filename \in NamesOf(store)
                   \/ \E a \in 1..Len(store) :
                         /\ store[a].filename # survey[e].filename
                         /\ Norm(store[a]) = Norm(survey[e])

\* an incremental build that evicted a deleted document and added a new one
C4_Witness ==
    /\ lastBuild = "incr"
    /\ \E k \in 1..Len(prevStore) : prevStore[k].filename \notin NamesOf(survey)
    /\ \E e \in 1..Len(survey) :
          /\ survey[e].filename \notin NamesOf(prevStore)
          /\ survey[e].filename \in NamesOf(store)

----------------------------------------------------------------------------
(* Claims about the query channels *)

\* C5: a document whose extraction failed is stored with its error marker,
\* and no result of keyword_search, semantic_search or hybrid_search is a
\* document that carries an error marker.
C5_ErrorNeverReturned ==
    /\ \A i \in SearchLocal :
          fsLocal[i] = "bad" =>
             \E k \in 1..Len(store) :
                store[k].filename = LocalPaths[i].name /\ store[k].error
    /\ lastSearch.op # "none" =>
          \A r \in 1..Len(lastSearch.results) : ~lastSearch.results[r].paper.error

\* C6: no document flagged is_scannable and no document whose file name
\* holds a denylist word is among the results of keyword_search,
\* semantic_search or hybrid_search, or in the ranking of any channel; and
\* in every per-query ranking of semantic_search the rank of a document is
\* one more than the number of eligible entries that precede it by
\* similarity, so a skipped document takes no rank.
C6_ExcludedNeverReturned ==
    lastSearch.op # "none" =>
        LET papers == Corpus
            Excluded(p) == p.is_scannable \/ \E d \in DenyList : Contains(p.filename, d)
            excluded == {p.filename : p \in {q \in Range(papers) : Excluded(q)}}
            outside == {p.filename : p \in {q \in Range(papers) :
                           /\ lastSearch.folder_filter # <<>>
                           /\ ~Contains(q.folder, lastSearch.folder_filter)}}
            eligible == {j \in 1..Len(emb.filenames) :
                            /\ emb.filenames[j] \in {p.filename : p \in Range(papers)}
                            /\ emb.filenames[j] \notin excluded \cup outside}
            queries == <<lastSearch.query, translate_query(lastSearch.query)>>
            query_embs == Stored([i \in 1..2 |-> Direction(queries[i])])
            Sim(i, j) == Cosine(encoder, emb.vectors[j], query_embs[i])
            Ahead(i, j) == {h \in eligible :
                               \/ Sim(i, h) > Sim(i, j)
                               \/ Sim(i, h) = Sim(i, j) /\ h > j}
        IN /\ \A r \in 1..Len(lastSearch.results) : ~Excluded(lastSearch.results[r].paper)
           /\ \A c \in 1..Len(lastSearch.channels) :
                 Range(lastSearch.channels[c].ranking) \cap excluded = {}
           /\ lastSearch.op = "semantic" =>
                 \A i \in 1..Len(lastSearch.channels) :
                    \A r \in 1..Len(lastSearch.channels[i].ranking) :
                       \E j \in eligible :
                          /\ emb.filenames[j] = lastSearch.channels[i].ranking[r]
                          /\ r = 1 + Cardinality(Ahead(i, j))

\* C6 happens: semantic_search returns a document although the snapshot
\* holds a scan or a denylisted document that is more similar to the query
C6_Witness ==
    /\ lastSearch.op = "semantic"
    /\ \E r \in 1..Len(lastSearch.results) : \E j \in 1..Len(emb.filenames) :
          /\ \E p \in Range(Corpus) :
                /\ p.filename = emb.filenames[j]
                /\ p.is_scannable \/ \E d \in DenyList : Contains(p.filename, d)
          /\ Cosine(encoder, emb.vectors[j], Direction(lastSearch.query))
                > lastSearch.results[r].sim

\* C7: with a folder filter, the folder of every returned document holds the
\* filter string, every channel ranks only documents whose folder holds it,
\* and the results are those of the same call, without a filter, on the
\* documents whose folder holds it: the filter changes no score.
C7_FolderFilterIsPreFilter ==
    lastSearch.op # "none" /\ lastSearch.folder_filter # <<>> =>
        LET s == lastSearch
            inside == SelectSeq(Corpus, LAMBDA p : Contains(p.folder, s.folder_filter))
            unfiltered ==
                CASE s.op = "keyword" ->
                        keyword_search(s.query, inside, s.top_n, <<>>, s.exclude_fallback)
                  [] s.op = "semantic" ->
                        semantic_search(hashSeed, encoder, embExists, emb, s.query,
                                        inside, s.top_n, <<>>)
                  [] OTHER ->
                        hybrid_search(hashSeed, encoder, embExists, emb, s.query, inside,
                                      s.top_n, <<>>, s.exclude_fallback, s.extra_queries)
        IN /\ \A r \in 1..Len(s.results) :
                 Contains(s.results[r].paper.folder, s.folder_filter)
           /\ \A c \in 1..Len(s.channels) :
                 Range(s.channels[c].ranking) \subseteq {p.filename : p \in Range(inside)}
           /\ s.results = unfiltered

\* C7 happens: hybrid_search with a filter returns documents, and without
\* the filter it would return a document of another folder
C7_Witness ==
    /\ lastSearch.op = "hybrid"
    /\ lastSearch.folder_filter # <<>>
    /\ lastSearch.results # <<>>
    /\ \E r \in Range(hybrid_search(hashSeed, encoder, embExists, emb, lastSearch.query,
                                    Corpus, lastSearch.top_n, <<>>,
                                    lastSearch.exclude_fallback,
                                    lastSearch.extra_queries)) :
          ~Contains(r.paper.folder, lastSearch.folder_filter)

\* C8: the fused score of a document is the sum of 1/(k + rank) over the
\* channels whose ranking holds it, in channel order, with rank its 1-based
\* place in the channel, k = 100 for the cross-lingual lexical channel and
\* k = 60 for every other channel; the scored documents are those of the
\* rankings, no ranking is longer than 200 or holds a document twice, and
\* the channels are the primary lexical, the primary semantic and the
\* cross-lingual lexical one, then a lexical and a semantic one per
\* auxiliary query.
C8_FusedScoreIsRRFSum ==
    lastSearch.op = "hybrid" =>
        LET ch == lastSearch.channels
            names == UNION {Range(ch[c].ranking) : c \in 1..Len(ch)}
            Term(c, fn) == (IF ch[c].channel = "en_kw" THEN 100 ELSE 60)
                           + (CHOOSE r \in 1..Len(ch[c].ranking) : ch[c].ranking[r] = fn)
            Holding(fn) == SelectSeq([c \in 1..Len(ch) |-> c],
                                     LAMBDA c : fn \in Range(ch[c].ranking))
            Terms(fn) == LET in == Holding(fn)
                         IN Stored([i \in 1..Len(in) |-> Term(in[i], fn)])
            RECURSIVE Sum(_, _)
            Sum(ds, n) == IF n = 0 THEN RRFZero ELSE RRFAdd(Sum(ds, n - 1), ds[n])
        IN /\ DOMAIN lastSearch.scores = names
           /\ \A fn \in names :
                 LET ds == Terms(fn)
                 IN /\ lastSearch.scores[fn].dens = ds
                    /\ lastSearch.scores[fn] = Sum(ds, Len(ds))
           /\ \A r \in 1..Len(lastSearch.results) :
                 lastSearch.results[r].rrf_score
                    = lastSearch.scores[lastSearch.results[r].paper.filename]
           /\ \A c \in 1..Len(ch) :
                 /\ Len(ch[c].ranking) <= 200
                 /\ \A a, b \in 1..Len(ch[c].ranking) :
                       a # b => ch[c].ranking[a] # ch[c].ranking[b]
                 /\ ch[c].k = IF ch[c].channel = "en_kw" THEN 100 ELSE 60
           /\ Len(ch) = 3 + 2 * Len(lastSearch.extra_queries)
           /\ \A c \in 1..Len(ch) :
                 ch[c].channel = IF c = 1 THEN "kw" ELSE IF c = 2 THEN "sem"
                                 ELSE IF c = 3 THEN "en_kw"
                                 ELSE IF c % 2 = 0 THEN "eq_kw" ELSE "eq_sem"

\* C8 happens: a document is ranked by the cross-lingual lexical channel and
\* by at least three more channels, another document by fewer channels
C8_Witness ==
    /\ lastSearch.op = "hybrid"
    /\ \E fn, other \in DOMAIN lastSearch.scores :
          /\ fn \in Range(lastSearch.channels[3].ranking)
          /\ Len(lastSearch.scores[fn].dens) >= 4
          /\ Len(lastSearch.scores[other].dens) < Len(lastSearch.scores[fn].dens)

\* C9: the fused order of semantic_search and of hybrid_search is by
\* descending fused score, and it is the same whatever the iteration order
\* of sets and dicts: the call returns the same order under every hash seed.
C9_OrderIsReproducible ==
    lastSearch.op \in {"semantic", "hybrid"} =>
        LET s == lastSearch
            Under(seed) ==
                IF s.op = "semantic"
                THEN semantic_run(seed, encoder, embExists, emb, s.query,
                                  load_index(store, seed), s.top_n, s.folder_filter)
                ELSE hybrid_run(seed, encoder, embExists, emb, s.query,
                                load_index(store, seed), s.top_n, s.folder_filter,
                                s.exclude_fallback, s.extra_queries)
        IN /\ \A a, b \in 1..Len(s.sorted_fns) :
                 a < b => ~RRFGreater(s.scores[s.sorted_fns[b]], s.scores[s.sorted_fns[a]])
           /\ \A seed \in HashSeeds :
                 /\ Under(seed).sorted_fns = s.sorted_fns
                 /\ ResultNames(Under(seed).results) = ResultNames(s.results)

\* C10: in the fused order of hybrid_search, a document that is first in
\* every channel that ranks anything precedes every document that is ranked
\* by one channel only; and the results are the first top_n of that order.
C10_TopOfAllChannelsFirst ==
    lastSearch.op = "hybrid" =>
        LET ch == lastSearch.channels
            order == lastSearch.sorted_fns
            contributing == {c \in 1..Len(ch) : ch[c].ranking # <<>>}
            InOne(fn) == Cardinality({c \in contributing : fn \in Range(ch[c].ranking)}) = 1
        IN /\ \A i \in 1..Len(order) :
                 (\A c \in contributing : ch[c].ranking[1] = order[i])
                 => \A j \in 1..(i - 1) : ~InOne(order[j])
           /\ ResultNames(lastSearch.results) = Prefix(order, lastSearch.top_n)

\* C10 happens: three channels or more rank documents, one document is first
\* in all of them, and another document is ranked by one of them only
C10_Witness ==
    /\ lastSearch.op = "hybrid"
    /\ LET ch == lastSearch.channels
           contributing == {c \in 1..Len(ch) : ch[c].ranking # <<>>}
       IN /\ Cardinality(contributing) >= 3
          /\ \E a, b \in Range(lastSearch.sorted_fns) :
                /\ a # b
                /\ \A c \in contributing : ch[c].ranking[1] = a
                /\ Cardinality({c \in contributing : b \in Range(ch[c].ranking)}) = 1

----------------------------------------------------------------------------
(* Claims about the cross-lingual channel and the recommender *)

\* the number of CJK characters of a text
CJKCount(text) == Len(SelectSeq(text, LAMBDA c : c \in CJK))

\* the number of characters of a query that the dictionary translates
RecognizedChars(query) ==
    TranslateLoop(RemoveChars(query, StrippedWordLevel), <<>>, 0).translated_chars

\* the ranking a hybrid call recorded for the channel of a name
ChannelRanking(name) ==
    LET c == CHOOSE i \in 1..Len(lastSearch.channels) :
                 lastSearch.channels[i].channel = name
    IN lastSearch.channels[c].ranking

\* C11: the cross-lingual lexical channel of a hybrid search is empty when
\* the dictionary translates under half of the CJK characters of the query
\* (two of five, say), and holds the lexical results of the word-level
\* translation only for a query with CJK characters of which at least half
\* are translated.
C11_GateByQueryCoverage ==
    lastSearch.op = "hybrid" =>
        /\ 2 * RecognizedChars(lastSearch.query) < CJKCount(lastSearch.query)
              => ChannelRanking("en_kw") = <<>>
        /\ ChannelRanking("en_kw") # <<>>
              => /\ is_chinese_query(lastSearch.query)
                 /\ 2 * RecognizedChars(lastSearch.query) >= CJKCount(lastSearch.query)
                 /\ ChannelRanking("en_kw") =
                       ResultNames(keyword_search(
                           translate_query_wordlevel(lastSearch.query), Corpus,
                           ChannelTopN, lastSearch.folder_filter,
                           lastSearch.exclude_fallback))

----------------------------------------------------------------------------
(* Claims about the coverage multiplier *)

\* the terms of the query of the last search, and those of them that a
\* result matched in either letter case
QueryTerms == Range(parse_query(lastSearch.query))
TermsMatched(r) == {t \in QueryTerms : {t, Lower(t)} \cap r.matched_terms # {}}

\* C12: for a query of two terms a and b, in whatever letter case, the
\* coverage multiplier of a result that matches only a is strictly less than
\* that of a result that matches both a and b.
C12_CoverageBoostIsStrict ==
    (lastSearch.op = "keyword" /\ Cardinality(QueryTerms) = 2) =>
        \A r1, r2 \in Range(lastSearch.results) :
            (Cardinality(TermsMatched(r1)) = 1 /\ TermsMatched(r2) = QueryTerms)
                => r1.coverage20 < r2.coverage20

\* a two-term query with an upper-case term returned a paper that matches
\* one term and a paper that matches both
C12_Witness ==
    /\ lastSearch.op = "keyword"
    /\ Cardinality(QueryTerms) = 2
    /\ \E t \in QueryTerms : Lower(t) # t
    /\ \E r1, r2 \in Range(lastSearch.results) :
          /\ Cardinality(TermsMatched(r1)) = 1
          /\ TermsMatched(r2) = QueryTerms

\* C20: the coverage multiplier of a result is the one of the share of the
\* query's own terms that it matched (2.0 from 90%, 1.5 from 70%, 1.2 from
\* 50%), so a result that matches every term of the query has 2.0, for a
\* query of one term and for terms with upper-case letters too.
C20_CoverageOfOriginalTerms ==
    lastSearch.op = "keyword" =>
        \A r \in Range(lastSearch.results) :
            r.coverage20 =
                IF 10 * Cardinality(TermsMatched(r)) >= 9 * Cardinality(QueryTerms)
                THEN CoverAll20
                ELSE IF 10 * Cardinality(TermsMatched(r)) >= 7 * Cardinality(QueryTerms)
                THEN CoverMost20
                ELSE IF 10 * Cardinality(TermsMatched(r)) >= 5 * Cardinality(QueryTerms)
                THEN CoverHalf20
                ELSE NoBonus20

\* the three papers of the cross-lingual library, by file name: the English
\* paper on runoff, the Chinese paper on runoff, the paper on carbon
Doc1 == LocalPaths[10].name
Doc2 == LocalPaths[7].name
Doc3 == LocalPaths[5].name

\* where the last search returned a file name (0: nowhere)
ResultRank(fn) ==
    IF fn \in Range(ResultNames(lastSearch.results))
    THEN CHOOSE r \in 1..Len(lastSearch.results) :
             lastSearch.results[r].paper.filename = fn
    ELSE 0

\* C13: in the library of doc1 (English, keywords "runoff hydrology"), doc2
\* (Chinese, keywords "runoff hydrology" in Chinese) and doc3 (unrelated), a
\* hybrid search for "runoff" in Chinese returns doc1 and doc2, both before
\* doc3 and both with matched terms, whatever the semantic channel ranks.
C13_CrossLingualAboveUnrelated ==
    (lastSearch.op = "hybrid" /\ lastSearch.query = JingLiu) =>
        \A d \in {Doc1, Doc2} :
            /\ ResultRank(d) > 0
            /\ ResultRank(Doc3) > 0 => ResultRank(d) < ResultRank(Doc3)
            /\ lastSearch.results[ResultRank(d)].matched_terms # {}

\* the semantic channel ranked doc3 first and nothing else
C13_Witness ==
    /\ lastSearch.op = "hybrid"
    /\ lastSearch.query = JingLiu
    /\ ChannelRanking("sem") = <<Doc3>>
    /\ ResultRank(Doc3) = 3

\* the papers of the corpus whose file name holds the name asked about, in
\* either letter case (none: the call carries no target)
SimilarMatches ==
    {k \in 1..Len(Corpus) : Contains(Lower(Corpus[k].filename), Lower(applied.arg))}

\* C14: find_similar returns at most top_n results and never the paper
\* asked about, even when it is first in the fused ranking of its synthetic
\* query: the results are that ranking without the target, cut to top_n.
\* When no file name holds the name it returns nothing and searches nothing.
C14_SimilarExcludesTarget ==
    lastSearch.op = "similar" =>
        IF SimilarMatches = {}
        THEN lastSearch.results = <<>> /\ lastSearch.channels = <<>>
        ELSE /\ applied.value \in {Corpus[k].filename : k \in SimilarMatches}
             /\ applied.value \notin Range(ResultNames(lastSearch.results))
             /\ Len(lastSearch.results) <= lastSearch.top_n
             /\ lastSearch.sorted_fns =
                   hybrid_run(hashSeed, encoder, embExists, emb, lastSearch.query,
                              Corpus, DefaultTopN, <<>>, FALSE, <<>>).sorted_fns
             /\ ResultNames(lastSearch.results) =
                   Prefix(SelectSeq(lastSearch.sorted_fns,
                                    LAMBDA fn : fn # applied.value),
                          lastSearch.top_n)

\* the target is first in the fused ranking of its synthetic query, which
\* ranks more papers than were asked for
C14_Witness ==
    /\ lastSearch.op = "similar"
    /\ SimilarMatches # {}
    /\ Len(lastSearch.sorted_fns) > lastSearch.top_n + 1
    /\ lastSearch.sorted_fns[1] = applied.value
    /\ Len(lastSearch.results) = lastSearch.top_n
----------------------------------------------------------------------------
(* Claims about the vector snapshot *)

\* the keys of the stored corpus snapshot
CorpusKeys == NamesOf(store)
\* the keys of the stored vector snapshot that the corpus snapshot lacks
StaleKeys == Range(emb.filenames) \ CorpusKeys
\* the documents some channel of the last search ranked, and those it returned
RankedKeys ==
    UNION {Range(lastSearch.channels[c].ranking) : c \in 1..Len(lastSearch.channels)}
        \cup Range(ResultNames(lastSearch.results))

\* C15: a search that loads a vector snapshot holding an entry whose key the
\* corpus snapshot lacks gets a loaded index without that entry and with the
\* number of pruned entries recorded, and ranks no such entry in
\* semantic_search or hybrid_search
C15_StaleVectorsPrunedAtLoad ==
    [][(EmbedSearch /\ embExists /\ StaleKeys # {}) =>
          /\ Range(reader'.data.filenames) \cap StaleKeys = {}
          /\ "pruned" \in DOMAIN reader'.data
          /\ reader'.data.pruned = Cardinality(StaleKeys)
          /\ RankedKeys' \cap StaleKeys = {}]_vars

\* the part of C15 about ranking, which the code satisfies
StaleVectorsNeverRanked ==
    [][(EmbedSearch /\ embExists /\ StaleKeys # {}) =>
          RankedKeys' \cap StaleKeys = {}]_vars
\* a search has loaded a snapshot with a stale entry and ranked something
StaleVectorsLoaded ==
    /\ lastSearch.op # "none"
    /\ reader.file = "embeddings" /\ reader.data.loaded
    /\ Range(reader.data.filenames) \ CorpusKeys # {}
    /\ lastSearch.results # <<>>

\* C16: after any run of build_embeddings, full or incremental, every key of
\* the stored vector snapshot is a key of the stored corpus snapshot
C16_RebuildPrunesDeleted ==
    [][BuildEmbeddings => (embExists' => Range(emb'.filenames) \subseteq CorpusKeys')]_vars

\* the models that produced the vectors of the stored snapshot
SnapshotModels == Range(emb.made_by)

\* C17: an incremental build_embeddings run with another model than the one
\* of the snapshot is rejected, so that the vectors of the stored snapshot
\* are never the work of two models
C17_OneModelPerSnapshot ==
    embExists => Cardinality(SnapshotModels) <= 1

\* C18: a load_index or load_embeddings that runs while build_index or
\* build_embeddings runs never reads a partly written snapshot: at every
\* instant each of the two files is a version written to the end
C18_SnapshotsReplacedWhole ==
    /\ \A file \in {"index", "embeddings"} : FileExists(file) => OnDisk(file).whole
    /\ reader.file # "none" => reader.whole

----------------------------------------------------------------------------
(* Claims about the tokenizer *)

\* the term set a call of tokenize returned
TermSet(call) == IF call.at = "build" THEN Range(call.terms) ELSE call.terms

----------------------------------------------------------------------------
(* Claims about the lexical scorer *)

\* the tokens of the fields score_paper_keyword looks at for a paper
SearchedTokens(paper) ==
    UNION {IF fields[k].field \in DOMAIN paper.tokens
           THEN paper.tokens[fields[k].field]
           ELSE IF fields[k].field = "first_pages_text"
                   /\ (paper.abstract # <<>> \/ paper.keywords # <<>>)
           THEN {}
           ELSE tokenize(FieldText(paper, fields[k].field)) : k \in 1..Len(fields)}

\* the query terms, lower-cased and as typed, and the expanded terms
SoughtTokens(query) ==
    {Lower(t) : t \in Range(parse_query(query))} \cup Range(parse_query(query))
        \cup expand_query(parse_query(query)).expanded

\* the eligible papers of the loaded index
EligiblePapers == {p \in Range(Corpus) : KeywordEligible(p, <<>>, FALSE)}
\* the papers keyword_search found for the last query, before sort and cut
MatchedPapers ==
    {r.paper.filename : r \in Range(keyword_matches(lastSearch.query, Corpus, <<>>, FALSE))}
\* the score of a paper for the last query
ScoreOf(p) ==
    score_paper_keyword(p,
        {Lower(t) : t \in Range(parse_query(lastSearch.query))}
            \cup Range(parse_query(lastSearch.query)),
        expand_query(parse_query(lastSearch.query)).expanded).score

\* C21: an eligible paper is among the results of keyword_search, before the
\* sort, dedup and cut, exactly if a searched field holds a query term or an
\* expanded term; without one its score is 0, with one it is positive
C21_MatchedIffScored ==
    lastSearch.op = "keyword" =>
        \A p \in EligiblePapers :
            LET matched == SearchedTokens(p) \cap SoughtTokens(lastSearch.query) # {}
            IN /\ p.filename \in MatchedPapers <=> matched
               /\ ~matched => ScoreOf(p) = 0
               /\ matched => ScoreOf(p) > 0

\* a search that found one eligible paper and not another, one of the found
\* by an expanded term alone and with every multiplier above 1
C21_Witness ==
    /\ lastSearch.op = "keyword"
    /\ \E p \in EligiblePapers : p.filename \notin MatchedPapers
    /\ \E p \in EligiblePapers :
          /\ p.filename \in MatchedPapers
          /\ SearchedTokens(p) \cap Range(parse_query(lastSearch.query)) = {}
    /\ \E p \in EligiblePapers :
          /\ p.filename \in MatchedPapers
          /\ p.abstract # <<>> /\ p.keywords # <<>>

\* C22: the scorer multiplies by 1.2 only for an abstract that is not the
\* work of a fallback path of the index builder, and by 1.05 for every
\* abstract that is: the fallback paragraph extraction and the fill-in from
\* the first pages, the title or the file name
C22_FallbackAbstractBonus ==
    lastSearch.op = "keyword" =>
        \A i \in 1..Len(lastSearch.results) :
            LET r == lastSearch.results[i]
            IN /\ r.abstract20 = AbstractBonus20 => r.paper.extraction_method = "standard"
               /\ (r.paper.abstract # <<>> /\ r.paper.extraction_method = "fallback")
                      => r.abstract20 = FallbackBonus20

----------------------------------------------------------------------------
(* Claims about semantic_search *)

\* the ranking of the query as typed, in the last semantic search
PrimaryRanking ==
    IF lastSearch.channels = <<>> THEN <<>> ELSE lastSearch.channels[1].ranking

\* the similarity of the stored vector of fn to the query as typed
PrimarySim(fn) ==
    Cosine(encoder, emb.vectors[LastIndex(emb.filenames, fn)], Direction(lastSearch.query))

\* C23: the similarity semantic_search reports for a result is the score of
\* the document in the ranking of the query as typed, and 0 for a document
\* that ranking does not hold
C23_ReportedSimilarity ==
    lastSearch.op = "semantic" =>
        \A i \in 1..Len(lastSearch.results) :
            LET r == lastSearch.results[i]
            IN IF r.paper.filename \in Range(PrimaryRanking)
               THEN r.sim = PrimarySim(r.paper.filename) /\ r.sim >= SimFloor
               ELSE r.sim = 0

\* the entries of the vector snapshot the last semantic search may rank: a
\* paper of the loaded index that is no scan, has no denylist word in its
\* name and lies in the folder asked for
RankableEntries ==
    {j \in 1..Len(emb.filenames) :
        \E p \in Range(Corpus) :
           /\ p.filename = emb.filenames[j]
           /\ ~p.is_scannable
           /\ \A d \in DenyList : ~Contains(p.filename, d)
           /\ lastSearch.folder_filter # <<>>
                 => Contains(p.folder, lastSearch.folder_filter)}

\* the similarity of entry j to query i of the last semantic search: the
\* query as typed, or its translation
QuerySim(i, j) ==
    Cosine(encoder, emb.vectors[j],
           Direction(IF i = 1 THEN lastSearch.query ELSE translate_query(lastSearch.query)))

\* C24: in every per-query ranking of semantic_search the ranked entries are
\* the eligible entries of similarity 0.1 or more and no others, each once,
\* in descending similarity, at the ranks 1..n
C24_RankedAboveFloor ==
    lastSearch.op = "semantic" =>
        \A i \in 1..Len(lastSearch.channels) :
            LET ranking == lastSearch.channels[i].ranking
                above == {j \in RankableEntries : QuerySim(i, j) >= SimFloor}
            IN /\ Range(ranking) = {emb.filenames[j] : j \in above}
               /\ Len(ranking) = Cardinality(above)
               /\ \A r \in 1..Len(ranking) :
                     \E j \in above :
                        /\ emb.filenames[j] = ranking[r]
                        /\ r = 1 + Cardinality({h \in above :
                                    \/ QuerySim(i, h) > QuerySim(i, j)
                                    \/ QuerySim(i, h) = QuerySim(i, j) /\ h > j})

\* a ranking with an eligible entry under the floor left out and an entry
\* that is not eligible more similar than a ranked one
C24_Witness ==
    /\ lastSearch.op = "semantic"
    /\ \E i \in 1..Len(lastSearch.channels) :
          /\ \E j \in RankableEntries : QuerySim(i, j) < SimFloor
          /\ \E j \in (1..Len(emb.filenames)) \ RankableEntries :
                \E h \in RankableEntries :
                   /\ QuerySim(i, h) >= SimFloor
                   /\ QuerySim(i, j) > QuerySim(i, h)

----------------------------------------------------------------------------
(* Claims about query translation *)

\* entry a of a translation table goes before entry b: the longer key, and of
\* two keys of one length the lesser
KeyBefore(a, b) ==
    \/ Len(a.cn) > Len(b.cn)
    \/ Len(a.cn) = Len(b.cn) /\ StrLess(a.cn, b.cn)

\* the entry of a non-empty set of table entries that goes before the others
FirstKey(entries) == CHOOSE a \in entries : \A b \in entries \ {a} : KeyBefore(a, b)

\* the term-by-term translation that takes, of the keys the text starts
\* with, the first by length and then by the order of strings
RECURSIVE LongestMatchLoop(_, _, _)
LongestMatchLoop(text, parts, translated_chars) ==
    IF text = <<>> THEN [parts |-> parts, translated_chars |-> translated_chars]
    ELSE LET Taken(part, n, chars) ==
                 LongestMatchLoop(SubSeq(text, n + 1, Len(text)),
                                  IF part \in Range(parts) THEN parts ELSE Append(parts, part),
                                  translated_chars + chars)
             Step(hits, n) ==
                 IF hits # {}
                 THEN Taken(FirstKey(hits).en, Len(FirstKey(hits).cn), Len(FirstKey(hits).cn))
                 ELSE IF n >= 1 THEN Taken(SubSeq(text, 1, n), n, 0)
                 ELSE LongestMatchLoop(Tail(text), parts, translated_chars)
         IN Step({e \in Range(CN_TO_EN_QUERY) : StartsWith(text, e.cn)},
                 RunLen(text, 1, Letters))

\* the templates that apply to a query: the one equal to it, else those that
\* contain it
ApplicableTemplates(q_norm) ==
    LET exact == {e \in Range(QUERY_TEMPLATES) : RemoveChar(e.cn, " ") = q_norm}
    IN IF exact # {} THEN exact
       ELSE {e \in Range(QUERY_TEMPLATES) : Contains(RemoveChar(e.cn, " "), q_norm)}

\* C25: of several templates or several term keys that apply, the translators
\* take the one that is first by decreasing key length and then by the order
\* of the keys as strings, whatever the order of declaration
C25_LongestMatchThenLexicographic ==
    /\ applied.fn = "translate_query" =>
          LET q_norm == RemoveChars(applied.arg, StrippedQuery)
          IN applied.value =
                IF ApplicableTemplates(q_norm) # {}
                THEN FirstKey(ApplicableTemplates(q_norm)).en
                ELSE Join(Chars(" "), LongestMatchLoop(q_norm, <<>>, 0).parts)
    /\ applied.fn = "translate_query_wordlevel" =>
          LET q_norm == RemoveChars(applied.arg, StrippedWordLevel)
              done == LongestMatchLoop(q_norm, <<>>, 0)
              total_cn_chars == Len(SelectSeq(q_norm, LAMBDA c : c \in CJK))
          IN applied.value =
                IF total_cn_chars > 0 /\ 2 * done.translated_chars < total_cn_chars
                THEN <<>> ELSE Join(Chars(" "), done.parts)

----------------------------------------------------------------------------
(* Claims about the cache of load_embeddings *)

\* C26: every semantic_search of a process ranks against the vector snapshot
\* as it is stored at the time of the call, also after build_embeddings has
\* replaced the snapshot the process loaded before: it returns what a search
\* on the stored snapshot returns
C26_SearchRanksStoredSnapshot ==
    lastSearch.op = "semantic" =>
        lastSearch.results =
            semantic_search(hashSeed, encoder, embExists, emb, EmbedQuery, Corpus,
                            DefaultTopN, <<>>)

\* the part of C26 about loading, which the code satisfies: a process that
\* holds a loaded snapshot has searched, and a search that finds a stored
\* snapshot leaves the process with a loaded one
SnapshotLoadedLazily ==
    /\ (lastSearch.op = "semantic" /\ embExists) => reader.file = "embeddings"
    /\ reader.file = "embeddings" => reader.data.loaded
\* a search was answered from a snapshot the process held and that
\* build_embeddings has replaced since
SearchedReplacedSnapshot ==
    /\ lastSearch.op = "semantic"
    /\ reader.file = "embeddings"
    /\ reader.data.filenames # emb.filenames
    /\ applied.fn = "build_embeddings" /\ applied.value = {TRUE}

----------------------------------------------------------------------------
(* Claims about the deduplication loop *)

\* the first tier alone: of papers with one file name the first is kept
RECURSIVE DropSameName(_)
DropSameName(papers) ==
    IF papers = <<>> THEN <<>>
    ELSE LET before == DropSameName(SubSeq(papers, 1, Len(papers) - 1))
             p == papers[Len(papers)]
         IN IF \E i \in 1..(Len(papers) - 1) : papers[i].filename = p.filename
            THEN before ELSE Append(before, p)

\* the second tier alone: a paper is dropped if its normalized file name is
\* that of a paper kept before it
RECURSIVE DropSameNormalized(_)
DropSameNormalized(papers) ==
    IF papers = <<>> THEN <<>>
    ELSE LET before == DropSameNormalized(SubSeq(papers, 1, Len(papers) - 1))
             p == papers[Len(papers)]
         IN IF \E i \in 1..Len(before) :
                  normalize_filename(before[i].filename) = normalize_filename(p.filename)
            THEN before ELSE Append(before, p)

\* C27: for every list of papers the loop of build_index keeps the papers,
\* in the order, that the two tiers keep when applied one after the other:
\* first the later papers of one file name dropped, then the later papers
\* whose normalized name is that of a paper kept
C27_SinglePassIsTwoTier ==
    applied.fn = "deduped" =>
        applied.value = DropSameNormalized(DropSameName(applied.arg))

\* the loop has dropped a paper for its normalized name and, after it, a
\* paper of the same file name as the dropped one, and has kept two papers
C27_Witness ==
    /\ applied.fn = "deduped"
    /\ Len(applied.value) = 2
    /\ \E i, j \in 1..Len(applied.arg) :
          /\ i < j
          /\ applied.arg[i].filename = applied.arg[j].filename
          /\ applied.arg[i].filename \notin NamesOf(applied.value)

----------------------------------------------------------------------------
(* Claims about hybrid_search *)

\* the papers a search returned whose abstract starts with the marker of the
\* fallback extraction
FallbackReturned ==
    {r \in 1..Len(lastSearch.results) :
        StartsWith(lastSearch.results[r].paper.abstract, MarkFallback)}

\* C28: a hybrid_search called with exclude_fallback returns no paper whose
\* abstract carries the marker of the fallback extraction, whichever channel
\* the paper came from
C28_HybridExcludesFallback ==
    (lastSearch.op = "hybrid" /\ lastSearch.exclude_fallback) => FallbackReturned = {}

\* the part of C28 about the lexical channels, which the code satisfies:
\* with exclude_fallback no lexical channel ranks a paper with the marker,
\* and a returned paper with the marker has the fields of a semantic match
LexicalChannelsExcludeFallback ==
    (lastSearch.op = "hybrid" /\ lastSearch.exclude_fallback) =>
        /\ \A c \in 1..Len(lastSearch.channels) :
              lastSearch.channels[c].channel \notin {"sem", "eq_sem"} =>
                 \A p \in Range(Corpus) :
                    p.filename \in Range(lastSearch.channels[c].ranking) =>
                        ~StartsWith(p.abstract, MarkFallback)
        /\ \A r \in FallbackReturned :
              lastSearch.results[r].matched_fields = <<"semantic">>
\* a hybrid search with exclude_fallback over a corpus with a fallback
\* abstract has returned papers
FallbackExcludedSomewhere ==
    /\ lastSearch.op = "hybrid" /\ lastSearch.exclude_fallback
    /\ lastSearch.results # <<>>
    /\ \E p \in Range(Corpus) : StartsWith(p.abstract, MarkFallback)

----------------------------------------------------------------------------
(* Claims about the stored vector snapshot *)

\* the papers of the library with every PDF of EmbedLocal in place
EmbeddablePapers ==
    Dedup(ProcessAll(all_pdfs_info(
        ScanFrom(LocalPaths,
                 [i \in 1..Len(LocalPaths) |->
                     IF i \in EmbedLocal THEN LocalPaths[i].content ELSE "absent"],
                 "local", 1),
        <<>>, FALSE)))

\* the vector of the paper of a file name
VectorOf(fn) ==
    Direction(compose_embedding_text(
        CHOOSE p \in Range(EmbeddablePapers) : p.filename = fn))

\* C29: whatever full and incremental runs of build_embeddings and builds of
\* the index came before, the stored vector snapshot has no file name twice,
\* as many vectors as file names, and at every position the vector of the
\* paper named at that position
C29_OneAlignedVectorPerKey ==
    /\ Len(emb.vectors) = Len(emb.filenames)
    /\ \A i, j \in 1..Len(emb.filenames) : emb.filenames[i] = emb.filenames[j] => i = j
    /\ \A i \in 1..Len(emb.filenames) :
          i <= Len(emb.vectors) /\ emb.vectors[i] = VectorOf(emb.filenames[i])

\* an incremental run has saved a snapshot of two vectors, the first kept
\* from the snapshot it found and the second made by another model
C29_Witness ==
    /\ applied.fn = "build_embeddings"
    /\ applied.arg[2] /\ applied.value = {TRUE}
    /\ Len(emb.filenames) = 2
    /\ emb.made_by[1] # emb.made_by[2]

----------------------------------------------------------------------------
(* Claims about incremental and full builds *)

\* C30: an incremental build_index on a store left by earlier builds keeps
\* the file names that a full build of the same survey keeps, and an
\* incremental build that follows one with the same survey leaves the set of
\* file names of the store as it was
C30_IncrementalIsFullRebuild ==
    [][/\ lastBuild' = "incr" => NamesOf(store') = NamesOf(Dedup(ProcessAll(survey')))
       /\ (lastBuild = "incr" /\ lastBuild' = "incr" /\ survey' = survey) =>
              NamesOf(store') = NamesOf(store)]_vars

\* the second part of C30, which the code satisfies
IncrementalTwiceSameKeys ==
    [][(lastBuild = "incr" /\ lastBuild' = "incr" /\ survey' = survey) =>
          NamesOf(store') = NamesOf(store)]_vars
\* an incremental build has run a second time on an unchanged survey that
\* holds a PDF the store lacks
IncrementalRanTwice ==
    /\ lastBuild = "incr"
    /\ prevStore = store
    /\ NamesOf(survey) \ NamesOf(store) # {}

============================================================================
